---- MODULE Spec2Model ----
(***************************************************************************)
(* dma-fence: the single-shot software fence of the dma-buf               *)
(* synchronization core (dma-fence.c / fence.c, include/linux/dma-fence.h) *)
(* One fence, several kernel threads calling its API concurrently.  Every *)
(* section of code run under fence->event_queue.lock is one atomic step;  *)
(* a function that drops the lock in the middle is split at that point.   *)
(***************************************************************************)
EXTENDS Integers, Sequences, FiniteSets, TLC

\* ---- bounds of the model
NThreads == 2
NCbs == 2
MaxCalls == 3
MaxTimeout == 1
NBatches == 2
NBufs == 2
MaxList == 2
MaxReserves == 2
MaxRefs == 2

Threads == 1..NThreads
Cbs == 1..NCbs
Batches == 1..NBatches
Bufs == 1..NBufs

\* ---- program constants
EINVAL == 22
ENOENT == 2
ERESTARTSYS == 512
EBUSY == 16
EAGAIN == 11
DMA_BUF_MAX_SHARED_FENCE == 8
MAX_SCHEDULE_TIMEOUT == 2147483647

DMA_FENCE_FLAG_SIGNALED == "SIGNALED"
DMA_FENCE_FLAG_NEED_SW_SIGNAL == "NEED_SW_SIGNAL"

TASK_RUNNING == "TASK_RUNNING"
TASK_INTERRUPTIBLE == "TASK_INTERRUPTIBLE"
TASK_UNINTERRUPTIBLE == "TASK_UNINTERRUPTIBLE"
TASK_NORMAL == {TASK_INTERRUPTIBLE, TASK_UNINTERRUPTIBLE}

\* the timeout arguments a caller passes to dma_fence_wait_timeout itself;
\* MAX_SCHEDULE_TIMEOUT is what dma_fence_wait passes to it
Timeouts == -1..MaxTimeout

\* the intr argument of a wait, and whether a signal is pending for the caller
\* when it enters (which the code reads only if intr)
WaitArgs == {<<FALSE, FALSE>>, <<TRUE, FALSE>>, <<TRUE, TRUE>>}

VARIABLES
    flags,        \* fence->flags, the set of DMA_FENCE_FLAG_* bits that are set
    event_queue,  \* fence->event_queue, the sequence of queued wait entries
    lock,         \* holder of event_queue.lock between steps (0: free)
    pc,           \* per thread: where it stands inside the call it runs
    op,           \* per thread: the call it runs ("none": none)
    cb,           \* per thread: the dma_fence_cb argument of that call (0: none)
    intr,         \* per thread: the intr argument of its wait
    timeout,      \* per thread: the timeout argument of its wait
    enable,       \* per thread: the local "enable" of dma_fence_wait_timeout
    enabled,      \* per thread: the local "enabled" of dma_fence_add_callback
    ret,          \* per thread: the local "ret" of the call it runs
    state,        \* per thread: the task state (current->state)
    sigpending,   \* per thread: signal_pending(current), while it waits with intr
    ncalls,       \* number of calls started
    last,         \* the call that returned in the step just taken (NoCall: none did)
    fired,        \* per callback: number of times cb->func was invoked
    registered,   \* per callback: add_callback returned 0, not removed since
    cancelled,    \* per callback: remove_callback returned true for it while registered
    hook_calls,   \* number of invocations of ops->enable_signaling
    sig_sets,     \* number of times __dma_fence_signal set SIGNALED and woke the queue
    sig_ok,       \* number of dma_fence_signal calls that returned 0
    hook_ret,     \* what ops->enable_signaling returned in the step just taken,
                  \* as {<<thread, answer>>} ({}: the hook did not run)
    fire_seq,     \* the callbacks whose cb->func ran in the step just taken, in
                  \* the order in which they ran
    refcount,     \* fence->refcount
    holders,      \* who holds a reference to the fence
    released,     \* number of times release_fence ran
    bug           \* the BUG_ON of release_fence was hit

fence_vars == <<flags, event_queue, lock, pc, op, cb, intr, timeout, enable,
                enabled, ret, state, sigpending, ncalls, last, fired, registered,
                cancelled, hook_calls, sig_sets, sig_ok, hook_ret,
                fire_seq, refcount, holders, released, bug>>

ref_vars == <<refcount, holders, released, bug>>

\* the reservation manager (dma-buf-mgr.c)
VARIABLES
    dma_buf_reserve_lock,     \* holder of the spinlock (0: free)
    dma_buf_reserve_counter,  \* the counter tickets are drawn from
    bo_reserved,      \* per buffer: bo->reserved
    bo_val_seq,       \* per buffer: the ticket of the reservation that holds it
    fence_excl,       \* per buffer: bo->fence_excl (NoFence: NULL)
    fence_shared,     \* per buffer: bo->fence_shared[0..fence_shared_count-1]
    list,             \* per batch: the caller's list, a sequence of [bo, shared]
    entry,            \* per batch: per list entry [reserved, num_fences, fences]
    mpc,              \* per batch: where it stands
    cur,              \* per batch: the list entry its reserve loop is at
    val_seq,          \* per batch: the local val_seq of its reserve
    mret,             \* per batch: the local ret of its reserve
    fence_new,        \* per batch: the fence passed to its commit
    nfences,          \* number of fences created for commits
    mcalls,           \* number of dmabufmgr_reserve_buffers calls started
    fence_refs,       \* per fence the manager has seen: its reference count
    val_refcount,     \* per batch: per list entry, the entry's refcount
    fence_signaled,   \* the fences of the manager that have been signaled
    walk,             \* per batch: where its dmabufmgr_wait_timeout stands
    mlast             \* the manager call that returned in the step just taken

mgr_vars == <<dma_buf_reserve_lock, dma_buf_reserve_counter, bo_reserved,
              bo_val_seq, fence_excl, fence_shared, list, entry, mpc, cur,
              val_seq, mret, fence_new, nfences, mcalls, fence_refs,
              val_refcount, fence_signaled, walk, mlast>>

wait_vars == <<fence_signaled, walk>>

vars == <<fence_vars, mgr_vars>>

\* ---- the holders of references: the fence's creator and the threads
Creator == 0
Holders == {Creator} \cup Threads

\* ---- wait queue entries
CbEntry(c) == [kind |-> "cb", id |-> c]
WaitEntry(t) == [kind |-> "wait", id |-> t]

Range(s) == {s[i] : i \in 1..Len(s)}
QueuedCbs(q) == {e.id : e \in {x \in Range(q) : x.kind = "cb"}}
QueuedWaiters(q) == {e.id : e \in {x \in Range(q) : x.kind = "wait"}}

\* ---- the kernel's wait-queue primitives
__add_wait_queue(q, e) == Append(q, e)
__remove_wait_queue(q, e) == SelectSeq(q, LAMBDA x : x # e)

\* a wake function that runs cb->func but leaves the entry queued
wake_func_keeps_entry(q, e) == q

\* __dma_fence_wake_func: the callback entry unlinks itself, then cb->func runs
\* (the run is counted in "fired" by the caller of __dma_fence_signal)
__dma_fence_wake_func(q, e) == __remove_wait_queue(q, e)

\* __wake_up_locked_key: every entry's wake function is called, in queue order;
\* a callback entry runs __dma_fence_wake_func, a waiter's entry
\* (default_wake_function) stays queued and its task is made runnable
RECURSIVE WakeFrom(_, _)
WakeFrom(todo, q) ==
    IF todo = <<>> THEN q
    ELSE WakeFrom(Tail(todo),
                  IF Head(todo).kind = "cb"
                  THEN __dma_fence_wake_func(q, Head(todo)) ELSE q)
__wake_up_locked_key(q) == WakeFrom(q, q)

\* the callbacks whose cb->func that walk runs, in the order of the walk
RECURSIVE WakeOrder(_)
WakeOrder(todo) ==
    IF todo = <<>> THEN <<>>
    ELSE (IF Head(todo).kind = "cb" THEN <<Head(todo).id>> ELSE <<>>)
         \o WakeOrder(Tail(todo))

\* a signal without the already-signaled check of lines 89-90
signal_unchecked(fl, q) ==
    [ret |-> 0, flags |-> fl \cup {DMA_FENCE_FLAG_SIGNALED},
     queue |-> __wake_up_locked_key(q),
     ran |-> QueuedCbs(q), order |-> WakeOrder(q),
          woken |-> QueuedWaiters(q), set |-> 1]

\* a signal that reports success on a fence that is signaled already
signal_again_succeeds(fl, q) ==
    IF DMA_FENCE_FLAG_SIGNALED \in fl
    THEN [ret |-> 0, flags |-> fl, queue |-> q, ran |-> {}, order |-> <<>>,
          woken |-> {},
          set |-> 0]
    ELSE [ret |-> 0, flags |-> fl \cup {DMA_FENCE_FLAG_SIGNALED},
          queue |-> __wake_up_locked_key(q),
          ran |-> QueuedCbs(q), order |-> WakeOrder(q),
          woken |-> QueuedWaiters(q), set |-> 1]

\* a signal that sets the flag and runs the callbacks but wakes no task
signal_wakes_no_task(fl, q) ==
    IF DMA_FENCE_FLAG_SIGNALED \in fl
    THEN [ret |-> -EINVAL, flags |-> fl, queue |-> q, ran |-> {}, order |-> <<>>,
          woken |-> {},
          set |-> 0]
    ELSE [ret |-> 0, flags |-> fl \cup {DMA_FENCE_FLAG_SIGNALED},
          queue |-> __wake_up_locked_key(q),
          ran |-> QueuedCbs(q), order |-> WakeOrder(q),
          woken |-> {}, set |-> 1]

\* a signal that leaves the queue as it is
signal_keeps_queue(fl, q) ==
    IF DMA_FENCE_FLAG_SIGNALED \in fl
    THEN [ret |-> -EINVAL, flags |-> fl, queue |-> q, ran |-> {}, order |-> <<>>,
          woken |-> {}, set |-> 0]
    ELSE [ret |-> 0, flags |-> fl \cup {DMA_FENCE_FLAG_SIGNALED}, queue |-> q,
          ran |-> QueuedCbs(q), order |-> WakeOrder(q),
          woken |-> QueuedWaiters(q), set |-> 1]

\* __dma_fence_signal, called with the lock held: the new flags and queue, the
\* callbacks that ran and the tasks woken, and the return value
__dma_fence_signal(fl, q) ==
    IF DMA_FENCE_FLAG_SIGNALED \in fl
    THEN [ret |-> -EINVAL, flags |-> fl, queue |-> q, ran |-> {}, order |-> <<>>,
          woken |-> {},
          set |-> 0]
    ELSE [ret |-> 0, flags |-> fl \cup {DMA_FENCE_FLAG_SIGNALED},
          queue |-> __wake_up_locked_key(q),
          ran |-> QueuedCbs(q), order |-> WakeOrder(q),
          woken |-> QueuedWaiters(q), set |-> 1]

\* no call returned in the step just taken
NoCall == [op |-> "none", cb |-> 0, intr |-> FALSE, timeout |-> 0, raw |-> 0,
           ret |-> 0, left |-> 0]

\* ---- the reservation manager's data (include/linux/dma-buf-mgr.h)
NoFence == 0

\* struct dmabufmgr_validate: the caller fills in bo and shared
Entries == [bo : Bufs, shared : BOOLEAN]

\* the lists a caller hands over: up to MaxList entries, each buffer named
\* any number of times, any mix of intents
Lists == UNION {[1..n -> Entries] : n \in 0..MaxList}

\* what the manager keeps in an entry: reserved, num_fences and
\* fences[0..num_fences-1], as dmabufmgr_reserve_buffers clears them on entry
ClearedEntry == [reserved |-> FALSE, num_fences |-> 0, fences |-> <<>>]

NoMgrCall == [op |-> "none", batch |-> 0, ret |-> 0]

\* no dmabufmgr_wait_timeout has been called by the batch
NoWalk == [entry |-> 0, fence |-> 0, ret |-> 0, intr |-> FALSE, timeout |-> 0]

\* no batch has called yet, over buffers whose fence slots hold sh and ex
MgrIdle(sh, ex) ==
    /\ dma_buf_reserve_lock = 0
    /\ dma_buf_reserve_counter = 0
    /\ bo_reserved = [b \in Bufs |-> FALSE]
    /\ bo_val_seq = [b \in Bufs |-> 0]
    /\ fence_excl = ex
    /\ fence_shared = sh
    /\ list = [k \in Batches |-> <<>>]
    /\ entry = [k \in Batches |-> <<>>]
    /\ mpc = [k \in Batches |-> "idle"]
    /\ cur = [k \in Batches |-> 0]
    /\ val_seq = [k \in Batches |-> 0]
    /\ mret = [k \in Batches |-> 0]
    /\ fence_new = [k \in Batches |-> NoFence]
    /\ nfences = 0
    /\ mcalls = 0
    \* each slot that points to a fence holds one reference to it
    /\ fence_refs = [f \in UNION {Range(sh[b]) \cup ({ex[b]} \ {NoFence}) : b \in Bufs}
                        |-> 1]
    /\ val_refcount = [k \in Batches |-> <<>>]
    /\ fence_signaled = {}
    /\ walk = [k \in Batches |-> NoWalk]
    /\ mlast = NoMgrCall

\* freshly exported buffers: no fence attached
MgrFresh == MgrIdle([b \in Bufs |-> <<>>], [b \in Bufs |-> NoFence])

FenceInit(fl) ==
    /\ flags \in fl
    /\ event_queue = <<>>
    /\ lock = 0
    /\ pc = [t \in Threads |-> "idle"]
    /\ op = [t \in Threads |-> "none"]
    /\ cb = [t \in Threads |-> 0]
    /\ intr = [t \in Threads |-> FALSE]
    /\ timeout = [t \in Threads |-> 0]
    /\ enable = [t \in Threads |-> FALSE]
    /\ enabled = [t \in Threads |-> FALSE]
    /\ ret = [t \in Threads |-> 0]
    /\ state = [t \in Threads |-> TASK_RUNNING]
    /\ sigpending = [t \in Threads |-> FALSE]
    /\ ncalls = 0
    /\ last = NoCall
    /\ fired = [c \in Cbs |-> 0]
    /\ registered = [c \in Cbs |-> FALSE]
    /\ cancelled = [c \in Cbs |-> FALSE]
    /\ hook_calls = 0
    /\ sig_sets = 0
    /\ sig_ok = 0
    /\ hook_ret = {}
    /\ fire_seq = <<>>
    \* kref_init: the creator holds the one reference
    /\ refcount = 1
    /\ holders = {Creator}
    /\ released = 0
    /\ bug = FALSE

Init ==
    \* __dma_fence_init leaves flags = 0; dma_fence_create then sets NEED_SW_SIGNAL
    /\ FenceInit({{}, {DMA_FENCE_FLAG_NEED_SW_SIGNAL}})
    /\ MgrFresh

\* threads are interchangeable and idle threads differ in nothing: the one with
\* the least id is the one that acts
FirstIdle(t) ==
    /\ pc[t] = "idle"
    /\ \A u \in Threads : u < t => pc[u] # "idle"

\* a thread may start a new call
CanCall(t) == FirstIdle(t) /\ lock = 0 /\ ncalls < MaxCalls

\* thread t starts call o with these arguments and runs on inside it at label l
Enter(t, l, o, c, i, tm) ==
    /\ pc' = [pc EXCEPT ![t] = l]
    /\ op' = [op EXCEPT ![t] = o]
    /\ cb' = [cb EXCEPT ![t] = c]
    /\ intr' = [intr EXCEPT ![t] = i]
    /\ timeout' = [timeout EXCEPT ![t] = tm]
    /\ ncalls' = ncalls + 1
    /\ last' = NoCall

\* a dma_fence_wait that drops the error of dma_fence_wait_timeout
wait_ret_drops_error(r) == 0

\* dma_fence_wait, line 297: what it makes of dma_fence_wait_timeout's result
dma_fence_wait_ret(r) == IF r < 0 THEN r ELSE 0

\* thread t returns from call o, whose body computed r: the call is recorded
\* (raw: r, which for "wait" is dma_fence_wait_timeout's result; ret: what the
\* call returns; left: the time a wait had left when it stopped waiting, which
\* is what its last schedule_timeout returned, or the whole timeout if it did
\* not sleep), its locals are gone
Return(t, o, c, i, tm, r) ==
    /\ last' = [op |-> o, cb |-> c, intr |-> i, timeout |-> tm, raw |-> r,
                ret |-> IF o = "wait" THEN dma_fence_wait_ret(r) ELSE r,
                left |-> IF pc[t] = "w_sched" THEN ret[t] ELSE tm]
    /\ pc' = [pc EXCEPT ![t] = "idle"]
    /\ op' = [op EXCEPT ![t] = "none"]
    /\ cb' = [cb EXCEPT ![t] = 0]
    /\ intr' = [intr EXCEPT ![t] = FALSE]
    /\ timeout' = [timeout EXCEPT ![t] = 0]
    /\ enable' = [enable EXCEPT ![t] = FALSE]
    /\ enabled' = [enabled EXCEPT ![t] = FALSE]
    /\ ret' = [ret EXCEPT ![t] = 0]

\* the effect of a __dma_fence_signal result r on the fence, callbacks and tasks
Signalled(r, st) ==
    /\ flags' = r.flags
    /\ fired' = [c \in Cbs |-> IF c \in r.ran THEN fired[c] + 1 ELSE fired[c]]
    /\ state' = [u \in Threads |-> IF u \in r.woken /\ st[u] \in TASK_NORMAL
                                   THEN TASK_RUNNING ELSE st[u]]
    /\ sig_sets' = sig_sets + r.set
    /\ fire_seq' = r.order

\* ---- dma_fence_signal, lines 108-121
dma_fence_signal(t) ==
    /\ UNCHANGED mgr_vars
    /\ UNCHANGED ref_vars
    /\ hook_ret' = {}
    /\ CanCall(t)
    /\ LET r == __dma_fence_signal(flags, event_queue) IN
        /\ Signalled(r, state)
        /\ event_queue' = r.queue
        /\ sig_ok' = sig_ok + (IF r.ret = 0 THEN 1 ELSE 0)
        /\ Return(t, "signal", 0, FALSE, 0, r.ret)
    /\ ncalls' = ncalls + 1
    /\ UNCHANGED <<lock, sigpending, registered, cancelled, hook_calls>>

\* a caller that does nothing about the hook's answer
hook_answer_ignored(en, fl, q) ==
    [ret |-> -EINVAL, flags |-> fl, queue |-> q, ran |-> {}, order |-> <<>>,
          woken |-> {},
     set |-> 0]

\* what the caller of ops->enable_signaling does with its answer en: nothing if
\* it is true, the fence is signaled if it is false (part_003 lines 221-222 and
\* 350-351, part_004 lines 130-131)
AfterHook(en, fl, q) ==
    IF en
    THEN [ret |-> -EINVAL, flags |-> fl, queue |-> q, ran |-> {}, order |-> <<>>,
          woken |-> {},
          set |-> 0]
    ELSE __dma_fence_signal(fl, q)

\* ---- dma_fence_add_callback
\* a caller passes a dma_fence_cb that is not registered anywhere at the moment
\* ("a callback can only be registered to one fence at a time")
CbFree(c) ==
    /\ c \notin QueuedCbs(event_queue)
    /\ \A u \in Threads : cb[u] # c

\* a caller that leaves the flag as it is
need_sw_not_set(fl) == fl

\* fence->flags |= DMA_FENCE_FLAG_NEED_SW_SIGNAL
SetNeedSw(fl) == fl \cup {DMA_FENCE_FLAG_NEED_SW_SIGNAL}

\* a test for the hook that looks at SIGNALED only
need_enable_ignores_need_sw(fl) == DMA_FENCE_FLAG_SIGNALED \notin fl

\* lines 206-207: the hook is needed if the fence is neither signaled nor has
\* signaling been enabled already
NeedEnable(fl) ==
    fl \cap {DMA_FENCE_FLAG_SIGNALED, DMA_FENCE_FLAG_NEED_SW_SIGNAL} = {}

\* a tail that queues the callback whatever the flags say
add_tail_unchecked(fl, q, c) == [ret |-> 0, queue |-> __add_wait_queue(q, CbEntry(c))]

\* a tail that puts the callback in front of the entries already queued
add_tail_at_head(fl, q, c) ==
    IF DMA_FENCE_FLAG_SIGNALED \in fl
    THEN [ret |-> -ENOENT, queue |-> q]
    ELSE [ret |-> 0, queue |-> <<CbEntry(c)>> \o q]

\* lines 224-235, lock held: -ENOENT if signaled, else the callback is queued
AddCallbackTail(fl, q, c) ==
    IF DMA_FENCE_FLAG_SIGNALED \in fl
    THEN [ret |-> -ENOENT, queue |-> q]
    ELSE [ret |-> 0, queue |-> __add_wait_queue(q, CbEntry(c))]

\* the bookkeeping of a dma_fence_add_callback(c) that returns r
Registered(c, r) ==
    /\ registered' = [registered EXCEPT ![c] = @ \/ r = 0]
    /\ cancelled' = [cancelled EXCEPT ![c] = @ /\ r # 0]

\* a dma_fence_add_callback that goes to the hook without the unlock of
\* line 216
add_callback_hook_locked(t, c) ==
    /\ UNCHANGED mgr_vars
    /\ UNCHANGED ref_vars
    /\ hook_ret' = {}
    /\ fire_seq' = <<>>
    /\ CanCall(t)
    /\ CbFree(c)
    /\ IF NeedEnable(flags)
       THEN /\ flags' = SetNeedSw(flags)
            /\ Enter(t, "ac_hook", "add_callback", c, FALSE, 0)
            /\ lock' = t
            /\ UNCHANGED <<event_queue, enable, enabled, ret, registered, cancelled>>
       ELSE LET a == AddCallbackTail(flags, event_queue, c) IN
            /\ event_queue' = a.queue
            /\ Registered(c, a.ret)
            /\ Return(t, "add_callback", c, FALSE, 0, a.ret)
            /\ ncalls' = ncalls + 1
            /\ UNCHANGED <<flags, lock>>
    /\ UNCHANGED <<state, sigpending, fired, hook_calls, sig_sets, sig_ok>>

\* a dma_fence_add_callback that queues the callback before it calls the hook
add_callback_queues_first(t, c) ==
    /\ UNCHANGED mgr_vars
    /\ UNCHANGED ref_vars
    /\ hook_ret' = {}
    /\ fire_seq' = <<>>
    /\ CanCall(t)
    /\ CbFree(c)
    /\ IF NeedEnable(flags)
       THEN /\ flags' = SetNeedSw(flags)
            /\ event_queue' = __add_wait_queue(event_queue, CbEntry(c))
            /\ Enter(t, "ac_hook", "add_callback", c, FALSE, 0)
            /\ UNCHANGED <<enable, enabled, ret, registered, cancelled>>
       ELSE LET a == AddCallbackTail(flags, event_queue, c) IN
            /\ event_queue' = a.queue
            /\ Registered(c, a.ret)
            /\ Return(t, "add_callback", c, FALSE, 0, a.ret)
            /\ ncalls' = ncalls + 1
            /\ UNCHANGED flags
    /\ UNCHANGED <<lock, state, sigpending, fired, hook_calls, sig_sets, sig_ok>>

\* lines 204-216 (the hook is needed: NEED_SW_SIGNAL is set, the lock dropped),
\* or lines 204-238 (it is not: the call runs to its end)
dma_fence_add_callback(t, c) ==
    /\ UNCHANGED mgr_vars
    /\ UNCHANGED ref_vars
    /\ hook_ret' = {}
    /\ fire_seq' = <<>>
    /\ CanCall(t)
    /\ CbFree(c)
    /\ IF NeedEnable(flags)
       THEN /\ flags' = SetNeedSw(flags)
            /\ Enter(t, "ac_hook", "add_callback", c, FALSE, 0)
            /\ UNCHANGED <<event_queue, enable, enabled, ret, registered, cancelled>>
       ELSE LET a == AddCallbackTail(flags, event_queue, c) IN
            /\ event_queue' = a.queue
            /\ Registered(c, a.ret)
            /\ Return(t, "add_callback", c, FALSE, 0, a.ret)
            /\ ncalls' = ncalls + 1
            /\ UNCHANGED flags
    /\ UNCHANGED <<lock, state, sigpending, fired, hook_calls, sig_sets, sig_ok>>

\* lines 217-238: the variant's hook runs with the lock not held and answers
\* true or false (it touches nothing of the fence); the lock is taken again,
\* the fence is signaled if the hook said false, then the tail
add_callback_relock(t) ==
    /\ UNCHANGED mgr_vars
    /\ UNCHANGED ref_vars
    /\ pc[t] = "ac_hook"
    /\ lock = 0
    /\ hook_calls' = hook_calls + 1
    /\ \E en \in BOOLEAN :
       LET r == AfterHook(en, flags, event_queue)
           a == AddCallbackTail(r.flags, r.queue, cb[t])
       IN
        /\ Signalled(r, state)
        /\ hook_ret' = {<<t, en>>}
        /\ event_queue' = a.queue
        /\ Registered(cb[t], a.ret)
        /\ Return(t, "add_callback", cb[t], FALSE, 0, a.ret)
    /\ UNCHANGED <<lock, sigpending, ncalls, sig_ok>>

\* ---- dma_fence_remove_callback
\* a removal that reports true but leaves the entry queued
remove_keeps_entry(fl, q, c) ==
    [ret |-> IF DMA_FENCE_FLAG_SIGNALED \in fl THEN 0 ELSE 1, queue |-> q]

\* lines 263-270: true unless the fence is signaled; the entry is unlinked
RemoveCallbackBody(fl, q, c) ==
    LET r == IF DMA_FENCE_FLAG_SIGNALED \in fl THEN 0 ELSE 1 IN
    [ret |-> r, queue |-> IF r = 1 THEN __remove_wait_queue(q, CbEntry(c)) ELSE q]

\* the caller removes "a previously queued callback": one it registered with a
\* successful dma_fence_add_callback and has not removed since
dma_fence_remove_callback(t, c) ==
    /\ UNCHANGED mgr_vars
    /\ UNCHANGED ref_vars
    /\ hook_ret' = {}
    /\ fire_seq' = <<>>
    /\ CanCall(t)
    /\ registered[c]
    /\ LET r == RemoveCallbackBody(flags, event_queue, c) IN
        /\ event_queue' = r.queue
        /\ registered' = [registered EXCEPT ![c] = @ /\ r.ret = 0]
        /\ cancelled' = [cancelled EXCEPT ![c] = @ \/ r.ret = 1]
        /\ Return(t, "remove_callback", c, FALSE, 0, r.ret)
    /\ ncalls' = ncalls + 1
    /\ UNCHANGED <<flags, lock, state, sigpending, fired, hook_calls, sig_sets,
                   sig_ok>>

\* ---- fence_enable_sw_signaling
\* lines 122-133: set NEED_SW_SIGNAL and drop the lock for the hook, or return
fence_enable_sw_signaling(t) ==
    /\ UNCHANGED mgr_vars
    /\ UNCHANGED ref_vars
    /\ hook_ret' = {}
    /\ fire_seq' = <<>>
    /\ CanCall(t)
    /\ IF flags \cap {DMA_FENCE_FLAG_SIGNALED, DMA_FENCE_FLAG_NEED_SW_SIGNAL} = {}
       THEN /\ flags' = SetNeedSw(flags)
            /\ Enter(t, "es_hook", "enable_sw_signaling", 0, FALSE, 0)
            /\ UNCHANGED <<enable, enabled, ret>>
       ELSE /\ Return(t, "enable_sw_signaling", 0, FALSE, 0, 0)
            /\ ncalls' = ncalls + 1
            /\ UNCHANGED flags
    /\ UNCHANGED <<event_queue, lock, state, sigpending, fired, registered,
                   cancelled, hook_calls, sig_sets, sig_ok>>

\* lines 130-131: the hook runs with the lock not held; if it says false,
\* fence_signal is called and its result dropped
enable_sw_hook(t) ==
    /\ UNCHANGED mgr_vars
    /\ UNCHANGED ref_vars
    /\ pc[t] = "es_hook"
    /\ lock = 0
    /\ hook_calls' = hook_calls + 1
    /\ \E en \in BOOLEAN :
       LET r == AfterHook(en, flags, event_queue)
       IN
        /\ Signalled(r, state)
        /\ hook_ret' = {<<t, en>>}
        /\ event_queue' = r.queue
        /\ sig_ok' = sig_ok + (IF r.ret = 0 THEN 1 ELSE 0)
    /\ Return(t, "enable_sw_signaling", 0, FALSE, 0, 0)
    /\ UNCHANGED <<lock, sigpending, ncalls, registered, cancelled>>

\* ---- dma_fence_wait and dma_fence_wait_timeout
\* lines 343-346: set_current_state
SleepState(i) == IF i THEN TASK_INTERRUPTIBLE ELSE TASK_UNINTERRUPTIBLE

\* a wait that calls the hook whatever the flags say
wait_enable_always(fl) == TRUE

\* lines 336-339: the waiter calls the hook if signaling was not enabled yet
WaitNeedEnable(fl) == DMA_FENCE_FLAG_NEED_SW_SIGNAL \notin fl

\* line 342: the condition of the wait loop
WaitLoopCond(fl, r) == DMA_FENCE_FLAG_SIGNALED \notin fl /\ r > 0

\* lines 321-347 up to the first unlock inside the loop, or to the return;
\* o is "wait" (dma_fence_wait, which passes MAX_SCHEDULE_TIMEOUT) or "wait_timeout",
\* sp tells whether a signal is pending for the caller when it enters
dma_fence_wait_timeout(t, o, i, tm, sp) ==
    /\ UNCHANGED mgr_vars
    /\ UNCHANGED ref_vars
    /\ hook_ret' = {}
    /\ fire_seq' = <<>>
    /\ CanCall(t)
    /\ IF tm < 0
       THEN /\ Return(t, o, 0, i, tm, -EINVAL)
            /\ ncalls' = ncalls + 1
            /\ UNCHANGED <<flags, event_queue, state>>
       ELSE IF DMA_FENCE_FLAG_SIGNALED \in flags
       THEN /\ Return(t, o, 0, i, tm, tm)
            /\ ncalls' = ncalls + 1
            /\ UNCHANGED <<flags, event_queue, state>>
       ELSE IF i /\ sp
       THEN /\ Return(t, o, 0, i, tm, -ERESTARTSYS)
            /\ ncalls' = ncalls + 1
            /\ UNCHANGED <<flags, event_queue, state>>
       ELSE LET en == WaitNeedEnable(flags)
                fl == SetNeedSw(flags)
                q == __add_wait_queue(event_queue, WaitEntry(t))
            IN
            /\ flags' = fl
            /\ IF WaitLoopCond(fl, tm)
               THEN /\ event_queue' = q
                    /\ state' = [state EXCEPT ![t] = SleepState(i)]
                    /\ enable' = [enable EXCEPT ![t] = en]
                    /\ ret' = [ret EXCEPT ![t] = tm]
                    /\ Enter(t, IF en THEN "w_hook" ELSE "w_sched", o, 0, i, tm)
                    /\ UNCHANGED enabled
               ELSE /\ event_queue' = __remove_wait_queue(q, WaitEntry(t))
                    /\ state' = [state EXCEPT ![t] = TASK_RUNNING]
                    /\ Return(t, o, 0, i, tm, tm)
                    /\ ncalls' = ncalls + 1
    /\ UNCHANGED <<lock, sigpending, fired, registered, cancelled, hook_calls,
                   sig_sets, sig_ok>>

\* lines 349-353: the hook runs with the lock not held; if it says false,
\* dma_fence_signal is called and its result dropped
wait_hook(t) ==
    /\ UNCHANGED mgr_vars
    /\ UNCHANGED ref_vars
    /\ pc[t] = "w_hook"
    /\ lock = 0
    /\ hook_calls' = hook_calls + 1
    /\ enable' = [enable EXCEPT ![t] = FALSE]
    /\ \E en \in BOOLEAN :
       LET r == AfterHook(en, flags, event_queue)
       IN
        /\ Signalled(r, state)
        /\ hook_ret' = {<<t, en>>}
        /\ event_queue' = r.queue
        /\ sig_ok' = sig_ok + (IF r.ret = 0 THEN 1 ELSE 0)
    /\ pc' = [pc EXCEPT ![t] = "w_sched"]
    /\ last' = NoCall
    /\ UNCHANGED <<lock, op, cb, intr, timeout, enabled, ret, sigpending, ncalls,
                   registered, cancelled>>

\* schedule_timeout(ret), line 355: a jiffy of a finite timeout passes; the last
\* one fires the timer, which makes the task runnable
schedule_timeout_tick(t) ==
    /\ UNCHANGED mgr_vars
    /\ UNCHANGED ref_vars
    /\ hook_ret' = {}
    /\ fire_seq' = <<>>
    /\ pc[t] = "w_sched"
    /\ ret[t] > 0 /\ ret[t] # MAX_SCHEDULE_TIMEOUT
    /\ ret' = [ret EXCEPT ![t] = @ - 1]
    /\ state' = [state EXCEPT ![t] = IF ret[t] = 1 THEN TASK_RUNNING ELSE @]
    /\ UNCHANGED <<flags, event_queue, lock, pc, op, cb, intr, timeout, enable,
                   enabled, sigpending, ncalls, fired, registered,
                   cancelled, hook_calls, sig_sets, sig_ok>>
    /\ last' = NoCall

\* the scheduler lets the task run: it was woken, or it is interruptible with a
\* signal pending
Runnable(t) ==
    \/ state[t] = TASK_RUNNING
    \/ state[t] = TASK_INTERRUPTIBLE /\ sigpending[t]

\* an interrupted test that does not look at the time left
interrupted_ret_any_time(r, i, sp) == IF i /\ sp THEN -ERESTARTSYS ELSE r

\* lines 358-359: with time left, an interruptible waiter with a signal pending
\* gives up; the error takes the place of the time left
InterruptedRet(r, i, sp) == IF r > 0 /\ i /\ sp THEN -ERESTARTSYS ELSE r

\* lines 355-366: schedule_timeout returns the time left, the lock is taken, the
\* loop condition is checked again: sleep again, or leave the queue and return
WaitResumeBody(t) ==
    /\ LET r == InterruptedRet(ret[t], intr[t], sigpending[t])
       IN
       IF WaitLoopCond(flags, r)
       THEN /\ state' = [state EXCEPT ![t] = SleepState(intr[t])]
            /\ ret' = [ret EXCEPT ![t] = r]
            /\ last' = NoCall
            /\ UNCHANGED <<event_queue, pc, op, cb, intr, timeout, enable,
                           enabled, sigpending>>
       ELSE /\ event_queue' = __remove_wait_queue(event_queue, WaitEntry(t))
            /\ state' = [state EXCEPT ![t] = TASK_RUNNING]
            /\ Return(t, op[t], 0, intr[t], timeout[t], r)
            /\ sigpending' = [sigpending EXCEPT ![t] = FALSE]
    /\ UNCHANGED <<flags, lock, ncalls, fired, registered, cancelled,
                   hook_calls, sig_sets, sig_ok>>

wait_resume(t) ==
    /\ UNCHANGED mgr_vars
    /\ UNCHANGED ref_vars
    /\ hook_ret' = {}
    /\ fire_seq' = <<>>
    /\ pc[t] = "w_sched"
    /\ Runnable(t)
    /\ lock = 0
    /\ WaitResumeBody(t)

\* a sleeping task is woken by something other than the fence or its timer (a
\* wake_up_process from anywhere): schedule_timeout returns early and the loop
\* of lines 342-360 decides again
spurious_wakeup(t) ==
    /\ UNCHANGED mgr_vars
    /\ UNCHANGED ref_vars
    /\ hook_ret' = {}
    /\ fire_seq' = <<>>
    /\ pc[t] = "w_sched"
    /\ state[t] \in TASK_NORMAL
    /\ ~Runnable(t)
    /\ lock = 0
    /\ WaitResumeBody(t)

\* a thread-directed signal arrives at a thread inside an interruptible wait:
\* signal_pending(current) becomes true and an interruptible sleeper is made
\* runnable (the caller handles the signal once the wait has returned)
deliver_signal(t) ==
    /\ UNCHANGED mgr_vars
    /\ UNCHANGED ref_vars
    /\ hook_ret' = {}
    /\ fire_seq' = <<>>
    /\ pc[t] \in {"w_hook", "w_sched"}
    /\ intr[t]
    /\ ~sigpending[t]
    /\ sigpending' = [sigpending EXCEPT ![t] = TRUE]
    /\ state' = [state EXCEPT ![t] = IF @ = TASK_INTERRUPTIBLE THEN TASK_RUNNING ELSE @]
    /\ UNCHANGED <<flags, event_queue, lock, pc, op, cb, intr, timeout, enable,
                   enabled, ret, ncalls, fired, registered, cancelled,
                   hook_calls, sig_sets, sig_ok>>
    /\ last' = NoCall

\* ---- dma_fence_remove_callback on a callback that is not registered
\* The caller passes a callback it never registered, or one it removed already.
\* Line 265 decides the return value from SIGNALED alone; on an unsignaled fence
\* line 267 then unlinks an entry that is in no list.  What list_del does with
\* such an entry is undefined: it may touch nothing of this queue, it may drop
\* a neighbour of a stale link from the queue, or the kernel may fault with the
\* lock held.
remove_callback_stale(t, c) ==
    /\ UNCHANGED mgr_vars
    /\ UNCHANGED ref_vars
    /\ hook_ret' = {}
    /\ fire_seq' = <<>>
    /\ CanCall(t)
    /\ ~registered[c]
    /\ c \notin QueuedCbs(event_queue)
    /\ UNCHANGED <<flags, state, sigpending, fired, registered, cancelled,
                   hook_calls, sig_sets, sig_ok>>
    /\ LET r == RemoveCallbackBody(flags, event_queue, c) IN
       IF r.ret = 0
       THEN /\ Return(t, "remove_callback", c, FALSE, 0, r.ret)
            /\ ncalls' = ncalls + 1
            /\ UNCHANGED <<event_queue, lock>>
       ELSE \/ /\ event_queue' = r.queue
               /\ Return(t, "remove_callback", c, FALSE, 0, r.ret)
               /\ ncalls' = ncalls + 1
               /\ UNCHANGED lock
            \/ /\ \E k \in 1..Len(event_queue) :
                      event_queue' = SubSeq(event_queue, 1, k - 1)
                                     \o SubSeq(event_queue, k + 1, Len(event_queue))
               /\ Return(t, "remove_callback", c, FALSE, 0, r.ret)
               /\ ncalls' = ncalls + 1
               /\ UNCHANGED lock
            \/ /\ lock' = t
               /\ Enter(t, "oops", "remove_callback", c, FALSE, 0)
               /\ UNCHANGED <<event_queue, enable, enabled, ret>>

Next ==
    \E t \in Threads :
        \/ dma_fence_signal(t)
        \/ \E c \in Cbs : dma_fence_add_callback(t, c)
        \/ add_callback_relock(t)
        \/ \E c \in Cbs : dma_fence_remove_callback(t, c)
        \/ fence_enable_sw_signaling(t)
        \/ enable_sw_hook(t)
        \/ \E a \in WaitArgs :
               dma_fence_wait_timeout(t, "wait", a[1], MAX_SCHEDULE_TIMEOUT, a[2])
        \/ \E a \in WaitArgs, tm \in Timeouts :
               dma_fence_wait_timeout(t, "wait_timeout", a[1], tm, a[2])
        \/ wait_hook(t)
        \/ schedule_timeout_tick(t)
        \/ wait_resume(t)
        \/ deliver_signal(t)
        \/ spurious_wakeup(t)

Spec == Init /\ [][Next]_vars

\* the scheduler runs every thread that is inside a call and can take a step;
\* nobody has to start a call, and no time has to pass
ThreadStep(t) ==
    add_callback_relock(t) \/ enable_sw_hook(t) \/ wait_hook(t) \/ wait_resume(t)
FairSpec == Init /\ [][Next]_vars /\ \A t \in Threads : WF_vars(ThreadStep(t))

\* callers that also wait with a timeout of more than MaxTimeout jiffies, so
\* that a wait can be interrupted after part of its timeout has passed
LongTimeout == MaxTimeout + 1
LongWaitNext ==
    \/ Next
    \/ \E t \in Threads, a \in WaitArgs :
           dma_fence_wait_timeout(t, "wait_timeout", a[1], LongTimeout, a[2])
LongWaitSpec ==
    Init /\ [][LongWaitNext]_vars /\ \A t \in Threads : WF_vars(ThreadStep(t))

\* ---- the fence's reference count
\* nothing of the fence's own state changes, no call returns
RefOnly ==
    /\ UNCHANGED mgr_vars
    /\ UNCHANGED <<flags, event_queue, lock, pc, op, cb, intr, timeout, enable,
                   enabled, ret, state, sigpending, ncalls, fired, registered,
                   cancelled, hook_calls, sig_sets, sig_ok>>
    /\ last' = NoCall
    /\ hook_ret' = {}
    /\ fire_seq' = <<>>

\* waitqueue_active(&fence->event_queue)
waitqueue_active(q) == q # <<>>

\* dma_fence_get, lines 153-158: h takes a reference of its own, handed the
\* fence by somebody who holds one
dma_fence_get(h) ==
    /\ h \notin holders
    /\ holders # {}
    /\ refcount' = refcount + 1
    /\ holders' = holders \cup {h}
    /\ UNCHANGED <<released, bug>>
    /\ RefOnly

\* when a holder may give its reference up: a thread when it is not inside a
\* call on the fence, the creator when the fence is signaled
MayPut(h) ==
    IF h = Creator THEN DMA_FENCE_FLAG_SIGNALED \in flags ELSE pc[h] = "idle"

\* dma_fence_put, lines 141-146, and release_fence, lines 124-135, which
\* kref_put calls when the count reaches zero
dma_fence_put(h) ==
    /\ h \in holders
    /\ MayPut(h)
    /\ refcount' = refcount - 1
    /\ holders' = holders \ {h}
    /\ IF refcount - 1 = 0
       THEN /\ bug' = waitqueue_active(event_queue)
            /\ released' = released + 1
       ELSE UNCHANGED <<released, bug>>
    /\ RefOnly

\* callers hold a reference for the duration of a call, and nobody touches a
\* fence that was released
RefAllowed ==
    /\ released = 0
    /\ (ncalls' # ncalls) => \E t \in Threads : FirstIdle(t) /\ t \in holders

RefNext ==
    \/ \E t \in Threads :
        \/ dma_fence_signal(t) /\ RefAllowed
        \/ \E c \in Cbs : dma_fence_add_callback(t, c) /\ RefAllowed
        \/ add_callback_relock(t) /\ RefAllowed
        \/ \E c \in Cbs : dma_fence_remove_callback(t, c) /\ RefAllowed
        \/ fence_enable_sw_signaling(t) /\ RefAllowed
        \/ enable_sw_hook(t) /\ RefAllowed
        \/ \E a \in WaitArgs :
               /\ dma_fence_wait_timeout(t, "wait", a[1], MAX_SCHEDULE_TIMEOUT, a[2])
               /\ RefAllowed
        \/ \E a \in WaitArgs, tm \in Timeouts :
               /\ dma_fence_wait_timeout(t, "wait_timeout", a[1], tm, a[2])
               /\ RefAllowed
        \/ wait_hook(t) /\ RefAllowed
        \/ schedule_timeout_tick(t) /\ RefAllowed
        \/ wait_resume(t) /\ RefAllowed
        \/ deliver_signal(t) /\ RefAllowed
        \/ spurious_wakeup(t) /\ RefAllowed
    \/ \E h \in Holders : dma_fence_get(h)
    \/ \E h \in Holders : dma_fence_put(h)
RefSpec == Init /\ [][RefNext]_vars

\* callers that also pass callbacks they have not registered
MisuseNext ==
    \/ Next
    \/ \E t \in Threads, c \in Cbs : remove_callback_stale(t, c)
MisuseSpec == Init /\ [][MisuseNext]_vars

\* ---- the reservation manager (drivers/base/dma-buf-mgr.c)
\* Every section run under dma_buf_reserve_lock is one atomic step, except the
\* loop of dmabufmgr_reserve_buffers, which takes one step per list entry with
\* the lock held in between.

\* a return of the local ret as it stood before the result at hand was stored
return_stale_ret(k, o, r) == mlast' = [op |-> o, batch |-> k, ret |-> mret[k]]

MgrReturn(k, o, r) == mlast' = [op |-> o, batch |-> k, ret |-> r]

\* a primitive that sends the caller away from a buffer it holds itself
reserve_locked_not_reentrant(bo, seq) ==
    IF ~bo_reserved[bo] THEN 0
    ELSE IF seq < bo_val_seq[bo] THEN -EBUSY
    ELSE -EAGAIN

\* a primitive that hands out a buffer whoever holds it
reserve_locked_steals(bo, seq) == 0

\* dma_buf_reserve_locked(bo, true, true, true, seq), the value it returns:
\* free or held under the same ticket: 0; held under a newer ticket: -EBUSY;
\* held under an older ticket: -EAGAIN
dma_buf_reserve_locked(bo, seq) ==
    IF ~bo_reserved[bo] \/ bo_val_seq[bo] = seq THEN 0
    ELSE IF seq < bo_val_seq[bo] THEN -EBUSY
    ELSE -EAGAIN

\* the same loop without its stores to the entry
backoff_keeps_flag(ents) == ents

\* the same loop without its store to entry->num_fences
backoff_keeps_count(ents) ==
    [i \in DOMAIN ents |-> [ents[i] EXCEPT !.reserved = FALSE]]

\* dmabufmgr_backoff_reservation_locked, what it leaves in the entries
BackoffEntries(ents) ==
    [i \in DOMAIN ents |->
        IF ents[i].reserved THEN [ents[i] EXCEPT !.reserved = FALSE, !.num_fences = 0,
                                                  !.fences = <<>>]
        ELSE ents[i]]

\* the same loop without its store to bo->reserved
backoff_keeps_buffers(l, ents) == bo_reserved

\* the same loop without its test of entry->reserved
backoff_ignores_flag(l, ents) ==
    [b \in Bufs |->
        IF \E i \in DOMAIN ents : l[i].bo = b THEN FALSE ELSE bo_reserved[b]]

\* the same loop started after the first entry of the list
backoff_skips_first(l, ents) ==
    [b \in Bufs |->
        IF \E i \in DOMAIN ents : i > 1 /\ ents[i].reserved /\ l[i].bo = b THEN FALSE
        ELSE bo_reserved[b]]

\* dmabufmgr_backoff_reservation_locked, what it leaves in the buffers
BackoffBufs(l, ents) ==
    [b \in Bufs |->
        IF \E i \in DOMAIN ents : ents[i].reserved /\ l[i].bo = b THEN FALSE
        ELSE bo_reserved[b]]

\* a back-off that lets go of nothing
backoff_locked_skipped(k) == UNCHANGED <<entry, bo_reserved>>

dmabufmgr_backoff_reservation_locked(k) ==
    /\ entry' = [entry EXCEPT ![k] = BackoffEntries(entry[k])]
    /\ bo_reserved' = BackoffBufs(list[k], entry[k])

\* a snapshot that looks at the shared fences whatever the intent
snapshot_any_intent(sh, shared_fences, excl) ==
    IF Len(shared_fences) # 0 THEN shared_fences
    ELSE IF excl # NoFence THEN <<excl>>
    ELSE <<>>

\* a snapshot that tests the exclusive fence first
snapshot_excl_first(sh, shared_fences, excl) ==
    IF excl # NoFence THEN <<excl>>
    ELSE IF ~sh THEN shared_fences
    ELSE <<>>

\* the fences dmabufmgr_reserve_buffers hands to an entry of intent sh
Snapshot(sh, shared_fences, excl) ==
    IF ~sh /\ Len(shared_fences) # 0 THEN shared_fences
    ELSE IF excl # NoFence THEN <<excl>>
    ELSE <<>>

\* the loop body without the store to entry->reserved
flag_not_set(ents, i) == ents

\* the same store made for the first entry of the list only
flag_first_only(ents, i) ==
    IF i = 1 THEN [ents EXCEPT ![i].reserved = TRUE] ELSE ents

\* entry->reserved = true, once dma_buf_reserve_locked has returned 0
Flagged(ents, i) == [ents EXCEPT ![i].reserved = TRUE]

\* batches are interchangeable until they call: the idle one with the least id
\* is the one that calls
FirstIdleBatch(k) == \A j \in Batches : (j < k) => mpc[j] # "idle"

\* dmabufmgr_reserve_buffers(list) up to retry, by callers that make up to max
\* such calls between them
ReserveCall(k, l, max) ==
    /\ mpc[k] = "idle"
    /\ FirstIdleBatch(k)
    /\ mcalls < max
    /\ mcalls' = mcalls + 1
    /\ list' = [list EXCEPT ![k] = l]
    /\ entry' = [entry EXCEPT ![k] = [i \in DOMAIN l |-> ClearedEntry]]
    /\ IF l = <<>>
       THEN /\ mpc' = [mpc EXCEPT ![k] = "held"]
            /\ MgrReturn(k, "reserve", 0)
       ELSE /\ mpc' = [mpc EXCEPT ![k] = "retry"]
            /\ mlast' = NoMgrCall
    /\ UNCHANGED <<dma_buf_reserve_lock, dma_buf_reserve_counter, bo_reserved,
                   bo_val_seq, fence_excl, fence_shared, cur, val_seq, mret,
                   fence_new, nfences>>
    /\ UNCHANGED fence_vars
    \* dmabufmgr_validate_init: kref_init for every entry put on the list
    /\ val_refcount' = [val_refcount EXCEPT ![k] = [i \in DOMAIN l |-> 1]]
    /\ UNCHANGED wait_vars
    /\ UNCHANGED fence_refs

dmabufmgr_reserve_buffers(k, l) == ReserveCall(k, l, MaxReserves)

\* retry: spin_lock; val_seq = atomic_inc_return(&dma_buf_reserve_counter)
reserve_retry(k) ==
    /\ mpc[k] = "retry"
    /\ dma_buf_reserve_lock = 0
    /\ dma_buf_reserve_lock' = k
    /\ dma_buf_reserve_counter' = dma_buf_reserve_counter + 1
    /\ val_seq' = [val_seq EXCEPT ![k] = dma_buf_reserve_counter + 1]
    /\ cur' = [cur EXCEPT ![k] = 1]
    /\ mpc' = [mpc EXCEPT ![k] = "scan"]
    /\ mlast' = NoMgrCall
    /\ UNCHANGED <<bo_reserved, bo_val_seq, fence_excl, fence_shared, list, entry,
                   mret, fence_new, nfences, mcalls>>
    /\ UNCHANGED fence_vars
    /\ UNCHANGED val_refcount
    /\ UNCHANGED wait_vars
    /\ UNCHANGED fence_refs

\* a return or a sleep that leaves the lock taken
spin_unlock_skipped(k) == UNCHANGED dma_buf_reserve_lock

\* spin_unlock(&dma_buf_reserve_lock)
spin_unlock(k) == dma_buf_reserve_lock' = 0

\* one turn of the loop over the list, the lock held
reserve_entry(k) ==
    /\ mpc[k] = "scan"
    /\ dma_buf_reserve_lock = k
    /\ LET i == cur[k]
           e == list[k][i]
           bo == e.bo
           r == dma_buf_reserve_locked(bo, val_seq[k])
           flagged == Flagged(entry[k], i)
       IN
       CASE r = 0 /\ e.shared /\ Len(fence_shared[bo]) = DMA_BUF_MAX_SHARED_FENCE ->
              \* the buffer is taken, then given back with the rest
              /\ entry' = [entry EXCEPT ![k] = BackoffEntries(flagged)]
              /\ bo_reserved' = BackoffBufs(list[k], flagged)
              /\ bo_val_seq' = [bo_val_seq EXCEPT ![bo] = val_seq[k]]
              /\ spin_unlock(k)
              /\ mpc' = [mpc EXCEPT ![k] = "idle"]
              /\ mret' = [mret EXCEPT ![k] = -EINVAL]
              /\ MgrReturn(k, "reserve", -EINVAL)
              /\ UNCHANGED cur
         [] r = 0 /\ ~(e.shared /\ Len(fence_shared[bo]) = DMA_BUF_MAX_SHARED_FENCE) ->
              LET got == Snapshot(e.shared, fence_shared[bo], fence_excl[bo]) IN
              /\ bo_reserved' = [bo_reserved EXCEPT ![bo] = TRUE]
              /\ bo_val_seq' = [bo_val_seq EXCEPT ![bo] = val_seq[k]]
              /\ entry' = [entry EXCEPT ![k] =
                              [flagged EXCEPT ![i].num_fences = Len(got),
                                              ![i].fences = got]]
              /\ mret' = [mret EXCEPT ![k] = 0]
              /\ IF i = Len(list[k])
                 THEN /\ spin_unlock(k)
                      /\ mpc' = [mpc EXCEPT ![k] = "held"]
                      /\ MgrReturn(k, "reserve", 0)
                      /\ UNCHANGED cur
                 ELSE /\ cur' = [cur EXCEPT ![k] = i + 1]
                      /\ mlast' = NoMgrCall
                      /\ UNCHANGED <<dma_buf_reserve_lock, mpc>>
         [] r = -EBUSY ->
              \* dmabufmgr_wait_unreserved_locked drops the lock and sleeps
              /\ spin_unlock(k)
              /\ mpc' = [mpc EXCEPT ![k] = "wait_busy"]
              /\ mret' = [mret EXCEPT ![k] = r]
              /\ mlast' = NoMgrCall
              /\ UNCHANGED <<bo_reserved, bo_val_seq, entry, cur>>
         [] r = -EAGAIN ->
              /\ dmabufmgr_backoff_reservation_locked(k)
              /\ spin_unlock(k)
              /\ mpc' = [mpc EXCEPT ![k] = "wait_again"]
              /\ mret' = [mret EXCEPT ![k] = r]
              /\ mlast' = NoMgrCall
              /\ UNCHANGED <<bo_val_seq, cur>>
         [] OTHER ->
              /\ dmabufmgr_backoff_reservation_locked(k)
              /\ spin_unlock(k)
              /\ mpc' = [mpc EXCEPT ![k] = "idle"]
              /\ mret' = [mret EXCEPT ![k] = r]
              /\ MgrReturn(k, "reserve", r)
              /\ UNCHANGED <<bo_val_seq, cur>>
    /\ UNCHANGED <<dma_buf_reserve_counter, fence_excl, fence_shared, list, val_seq,
                   fence_new, nfences, mcalls>>
    /\ UNCHANGED fence_vars
    /\ UNCHANGED val_refcount
    /\ UNCHANGED wait_vars
    /\ UNCHANGED fence_refs

\* dma_buf_wait_unreserved(bo, true) and what the caller does with its result.
\* The sleep on bo->event_queue ends when the buffer is not reserved, or with
\* -ERESTARTSYS when a signal arrives.  After -EAGAIN the batch sleeps holding
\* nothing, then returns the error or goes to retry.  After -EBUSY the sleep is
\* the one of dmabufmgr_wait_unreserved_locked, which takes the lock again,
\* backs off if the sleep was interrupted, and leaves the caller to return or
\* to go to retry_this_bo with the lock held.
dma_buf_wait_unreserved(k, r) ==
    /\ mpc[k] \in {"wait_busy", "wait_again"}
    /\ r \in {0, -ERESTARTSYS}
    /\ (r = 0) => ~bo_reserved[list[k][cur[k]].bo]
    /\ mret' = [mret EXCEPT ![k] = r]
    /\ IF mpc[k] = "wait_again"
       THEN /\ IF r # 0
               THEN /\ mpc' = [mpc EXCEPT ![k] = "idle"]
                    /\ MgrReturn(k, "reserve", r)
               ELSE /\ mpc' = [mpc EXCEPT ![k] = "retry"]
                    /\ mlast' = NoMgrCall
            /\ UNCHANGED <<dma_buf_reserve_lock, entry, bo_reserved>>
       ELSE /\ dma_buf_reserve_lock = 0
            /\ IF r # 0
               THEN /\ dmabufmgr_backoff_reservation_locked(k)
                    /\ mpc' = [mpc EXCEPT ![k] = "idle"]
                    /\ MgrReturn(k, "reserve", r)
                    /\ UNCHANGED dma_buf_reserve_lock
               ELSE /\ dma_buf_reserve_lock' = k
                    /\ mpc' = [mpc EXCEPT ![k] = "scan"]
                    /\ mlast' = NoMgrCall
                    /\ UNCHANGED <<entry, bo_reserved>>
    /\ UNCHANGED <<dma_buf_reserve_counter, bo_val_seq, fence_excl, fence_shared,
                   list, cur, val_seq, fence_new, nfences, mcalls>>
    /\ UNCHANGED fence_vars
    /\ UNCHANGED val_refcount
    /\ UNCHANGED wait_vars
    /\ UNCHANGED fence_refs

dmabufmgr_backoff_reservation(k) ==
    /\ mpc[k] = "held"
    /\ IF list[k] = <<>>
       THEN UNCHANGED <<entry, bo_reserved>>
       ELSE /\ dma_buf_reserve_lock = 0
            /\ dmabufmgr_backoff_reservation_locked(k)
    /\ mpc' = [mpc EXCEPT ![k] = "idle"]
    /\ MgrReturn(k, "backoff", 0)
    /\ UNCHANGED <<dma_buf_reserve_lock, dma_buf_reserve_counter, bo_val_seq,
                   fence_excl, fence_shared, list, cur, val_seq, mret, fence_new,
                   nfences, mcalls>>
    /\ UNCHANGED fence_vars
    /\ UNCHANGED val_refcount
    /\ UNCHANGED wait_vars
    /\ UNCHANGED fence_refs

\* the first loop of dmabufmgr_fence_buffer_objects, run without the lock: an
\* exclusive entry drops every fence of its buffer
ReleasedShared(l) ==
    [b \in Bufs |->
        IF \E i \in DOMAIN l : l[i].bo = b /\ ~l[i].shared THEN <<>>
        ELSE fence_shared[b]]

ReleasedExcl(l) ==
    [b \in Bufs |->
        IF \E i \in DOMAIN l : l[i].bo = b /\ ~l[i].shared THEN NoFence
        ELSE fence_excl[b]]

\* the buffers that list l names with an exclusive entry
ExclBufs(l) == {b \in Bufs : \E i \in DOMAIN l : l[i].bo = b /\ ~l[i].shared}

\* the dma_fence_put calls of the first loop that are made on fence f: one for
\* each slot of the buffers of ExclBufs(l) that points to it
Dropped(l, f) ==
    Cardinality({s \in ExclBufs(l) \X (1..(DMA_BUF_MAX_SHARED_FENCE + MaxList)) :
                    s[2] <= Len(fence_shared[s[1]]) /\ fence_shared[s[1]][s[2]] = f})
    + Cardinality({b \in ExclBufs(l) : fence_excl[b] = f})

\* a first loop that puts no fence
put_skipped(l, refs) == refs

\* the reference counts the first loop leaves
PutFences(l, refs) == [f \in DOMAIN refs |-> refs[f] - Dropped(l, f)]

\* a second loop that takes one reference for the whole list
get_once(l, f, refs) == [refs EXCEPT ![f] = @ + 1]

\* dma_fence_get(fence), once per entry of the list
GetFence(l, f, refs) == [refs EXCEPT ![f] = @ + Len(l)]

\* a second loop that stores no shared fence
fenced_shared_dropped(l, i, f, sh) == sh

\* the second loop, entry by entry from entry i on: the slots it leaves
RECURSIVE FencedShared(_, _, _, _)
FencedShared(l, i, f, sh) ==
    IF i > Len(l) THEN sh
    ELSE FencedShared(l, i + 1, f,
             IF l[i].shared THEN [sh EXCEPT ![l[i].bo] = Append(@, f)] ELSE sh)

FencedExcl(l, f, ex) ==
    [b \in Bufs |->
        IF \E i \in DOMAIN l : l[i].bo = b /\ ~l[i].shared THEN f ELSE ex[b]]

\* dma_buf_unreserve_locked on every buffer of the list
UnreservedBufs(l) ==
    [b \in Bufs |-> IF \E i \in DOMAIN l : l[i].bo = b THEN FALSE ELSE bo_reserved[b]]

\* a first loop without its store to entry->reserved
commit_keeps_flag(ents) == ents

\* line 270: entry->reserved = false, for every entry
CommitEntries(ents) == [i \in DOMAIN ents |-> [ents[i] EXCEPT !.reserved = FALSE]]

\* dmabufmgr_fence_buffer_objects(fence, list) up to its spin_lock; the fence
\* is one the caller has just created
dmabufmgr_fence_buffer_objects(k) ==
    /\ mpc[k] = "held"
    /\ nfences' = nfences + 1
    /\ fence_new' = [fence_new EXCEPT ![k] = nfences + 1]
    /\ IF list[k] = <<>>
       THEN /\ mpc' = [mpc EXCEPT ![k] = "idle"]
            /\ MgrReturn(k, "fence", 0)
            /\ fence_refs' = fence_refs @@ ((nfences + 1) :> 1)
            /\ UNCHANGED <<fence_shared, fence_excl, entry>>
       ELSE /\ fence_shared' = ReleasedShared(list[k])
            /\ fence_refs' = PutFences(list[k], fence_refs) @@ ((nfences + 1) :> 1)
            /\ fence_excl' = ReleasedExcl(list[k])
            /\ entry' = [entry EXCEPT ![k] = CommitEntries(entry[k])]
            /\ mpc' = [mpc EXCEPT ![k] = "commit"]
            /\ mlast' = NoMgrCall
    /\ UNCHANGED <<dma_buf_reserve_lock, dma_buf_reserve_counter, bo_reserved,
                   bo_val_seq, list, cur, val_seq, mret, mcalls>>
    /\ UNCHANGED fence_vars
    /\ UNCHANGED val_refcount
    /\ UNCHANGED wait_vars

\* the rest of dmabufmgr_fence_buffer_objects, under the lock
fence_buffer_objects_locked(k) ==
    /\ mpc[k] = "commit"
    /\ dma_buf_reserve_lock = 0
    /\ fence_shared' = FencedShared(list[k], 1, fence_new[k], fence_shared)
    /\ fence_excl' = FencedExcl(list[k], fence_new[k], fence_excl)
    /\ fence_refs' = GetFence(list[k], fence_new[k], fence_refs)
    /\ bo_reserved' = UnreservedBufs(list[k])
    /\ mpc' = [mpc EXCEPT ![k] = "idle"]
    /\ MgrReturn(k, "fence", 0)
    /\ UNCHANGED <<dma_buf_reserve_lock, dma_buf_reserve_counter, bo_val_seq, list,
                   entry, cur, val_seq, mret, fence_new, nfences, mcalls>>
    /\ UNCHANGED fence_vars
    /\ UNCHANGED val_refcount
    /\ UNCHANGED wait_vars

\* the fences buffer b carries when the model starts: n shared ones, and an
\* exclusive one if x
PriorShared(b, n) == [i \in 1..n |-> -(b * (DMA_BUF_MAX_SHARED_FENCE + 1) + i)]
PriorExcl(b, x) == IF x THEN -(b * (DMA_BUF_MAX_SHARED_FENCE + 1)) ELSE NoFence

\* the histories the buffers start with: never fenced; fenced shared twice;
\* fenced exclusively and then shared up to one slot short of the array;
\* fenced shared until the array is full
PriorConfigs == {<<0, FALSE>>, <<2, FALSE>>,
                 <<DMA_BUF_MAX_SHARED_FENCE - 1, TRUE>>,
                 <<DMA_BUF_MAX_SHARED_FENCE, FALSE>>}

\* buffers are interchangeable: they start in the order of their fence counts
MgrInit ==
    /\ FenceInit({{}})
    /\ \E c \in [Bufs -> PriorConfigs] :
           /\ \A a, b \in Bufs : (a < b) => c[a][1] <= c[b][1]
           /\ MgrIdle([b \in Bufs |-> PriorShared(b, c[b][1])],
                      [b \in Bufs |-> PriorExcl(b, c[b][2])])

MgrNext ==
    \E k \in Batches :
        \/ \E l \in Lists : dmabufmgr_reserve_buffers(k, l)
        \/ reserve_retry(k)
        \/ reserve_entry(k)
        \/ \E r \in {0, -ERESTARTSYS} : dma_buf_wait_unreserved(k, r)
        \/ dmabufmgr_backoff_reservation(k)
        \/ dmabufmgr_fence_buffer_objects(k)
        \/ fence_buffer_objects_locked(k)

MgrSpec == MgrInit /\ [][MgrNext]_vars

\* ---- the reference counts of the validation entries, and the wait on the
\* collected fences
Remove(s, i) == SubSeq(s, 1, i - 1) \o SubSeq(s, i + 1, Len(s))

\* nothing of the manager but the entries' refcounts and the lists changes
ValOnly ==
    /\ UNCHANGED <<dma_buf_reserve_lock, dma_buf_reserve_counter, bo_reserved,
                   bo_val_seq, fence_excl, fence_shared, mpc, cur, val_seq, mret,
                   fence_new, nfences, mcalls, fence_refs>>
    /\ UNCHANGED wait_vars
    /\ UNCHANGED fence_vars

\* dmabufmgr_validate_get, dma-buf-mgr.h lines 91-96
dmabufmgr_validate_get(k, i) ==
    /\ i \in DOMAIN list[k]
    /\ val_refcount[k][i] < MaxRefs
    /\ val_refcount' = [val_refcount EXCEPT ![k][i] = @ + 1]
    /\ MgrReturn(k, "validate_get", 0)
    /\ UNCHANGED <<list, entry>>
    /\ ValOnly

\* a free that leaves the entry on its list
validate_free_no_list_del(s, i) == s

\* dmabufmgr_validate_free, lines 297-303: list_del(&val->head)
dmabufmgr_validate_free(s, i) == Remove(s, i)

\* dmabufmgr_validate_put, dma-buf-mgr.h lines 110-114: kref_put returns 1 when
\* it dropped the last reference and called dmabufmgr_validate_free.  The
\* caller gives the last reference up between its calls on the list only.
dmabufmgr_validate_put(k, i) ==
    /\ i \in DOMAIN list[k]
    /\ IF val_refcount[k][i] = 1
       THEN /\ mpc[k] = "idle"
            /\ list' = [list EXCEPT ![k] = dmabufmgr_validate_free(@, i)]
            /\ entry' = [entry EXCEPT ![k] = Remove(@, i)]
            /\ val_refcount' = [val_refcount EXCEPT ![k] = Remove(@, i)]
            /\ MgrReturn(k, "validate_put", 1)
       ELSE /\ val_refcount' = [val_refcount EXCEPT ![k][i] = @ - 1]
            /\ MgrReturn(k, "validate_put", 0)
            /\ UNCHANGED <<list, entry>>
    /\ ValOnly

\* the number of fences the entries hold
RECURSIVE NumCollected(_)
NumCollected(ents) ==
    IF ents = <<>> THEN 0
    ELSE Head(ents).num_fences + NumCollected(Tail(ents))

\* dmabufmgr_wait_timeout, lines 213-230: with no fence to wait for the
\* timeout comes back as it is; else the result is that of the last
\* dma_fence_wait_timeout called: -EINVAL for a negative timeout, or
\* -ERESTARTSYS for an interrupted wait, or the time left, which is no more
\* than the timeout
WaitTimeoutRets(n, i, tm) ==
    IF n = 0 THEN {tm}
    ELSE IF tm < 0 THEN {-EINVAL}
    ELSE (IF i THEN {-ERESTARTSYS} ELSE {}) \cup 0..tm

dmabufmgr_wait_timeout(k, i, tm) ==
    /\ mpc[k] = "held"
    /\ \E r \in WaitTimeoutRets(NumCollected(entry[k]), i, tm) :
           MgrReturn(k, "wait_timeout", r)
    /\ UNCHANGED <<list, entry, val_refcount>>
    /\ ValOnly

\* lists that ask for exclusive access throughout
ExclLists == {l \in Lists : \A i \in DOMAIN l : ~l[i].shared}

\* callers that take and drop references to their entries and wait for the
\* collected fences; every buffer starts with an exclusive fence.  The intent
\* of an entry plays no part in what happens to its refcount.
ValInit ==
    /\ FenceInit({{}})
    /\ MgrIdle([b \in Bufs |-> <<>>], [b \in Bufs |-> PriorExcl(b, TRUE)])
ValNext ==
    \/ \E k \in Batches :
        \/ \E l \in ExclLists : dmabufmgr_reserve_buffers(k, l)
        \/ reserve_retry(k)
        \/ reserve_entry(k)
        \/ \E r \in {0, -ERESTARTSYS} : dma_buf_wait_unreserved(k, r)
        \/ dmabufmgr_backoff_reservation(k)
        \/ dmabufmgr_fence_buffer_objects(k)
        \/ fence_buffer_objects_locked(k)
    \/ \E k \in Batches, i \in 1..MaxList : dmabufmgr_validate_get(k, i)
    \/ \E k \in Batches, i \in 1..MaxList : dmabufmgr_validate_put(k, i)
    \/ \E k \in Batches, i \in BOOLEAN, tm \in Timeouts :
           dmabufmgr_wait_timeout(k, i, tm)
ValSpec == ValInit /\ [][ValNext]_vars

\* callers that come back: one reserve more between them, on buffers that
\* start without fences.  The intent of an entry plays no part in whether its
\* buffer is acquired (lines 143-167), so these callers ask for exclusive
\* access throughout.
MoreReserves == MaxReserves + 1
ContendInit == FenceInit({{}}) /\ MgrFresh
ContendNext ==
    \E k \in Batches :
        \/ \E l \in ExclLists : ReserveCall(k, l, MoreReserves)
        \/ reserve_retry(k)
        \/ reserve_entry(k)
        \/ \E r \in {0, -ERESTARTSYS} : dma_buf_wait_unreserved(k, r)
        \/ dmabufmgr_backoff_reservation(k)
        \/ dmabufmgr_fence_buffer_objects(k)
        \/ fence_buffer_objects_locked(k)
ContendSpec == ContendInit /\ [][ContendNext]_vars

\* a batch inside a call runs when it can, a sleeper wakes once its buffer is
\* free and stays free, and a batch whose reserve succeeded goes on to commit
\* or to back off
BatchStep(k) ==
    \/ reserve_retry(k)
    \/ reserve_entry(k)
    \/ dma_buf_wait_unreserved(k, 0)
    \/ dmabufmgr_backoff_reservation(k)
    \/ dmabufmgr_fence_buffer_objects(k)
    \/ fence_buffer_objects_locked(k)
FairContendSpec ==
    ContendInit /\ [][ContendNext]_vars /\ \A k \in Batches : WF_vars(BatchStep(k))

\* ---- a back-off of a list that is not reserved
\* dmabufmgr_backoff_reservation(list) called again on the list of the batch's
\* last call: after a commit, a back-off or a failed reserve
backoff_again(k) ==
    /\ mpc[k] = "idle"
    /\ IF list[k] = <<>>
       THEN UNCHANGED <<entry, bo_reserved>>
       ELSE /\ dma_buf_reserve_lock = 0
            /\ dmabufmgr_backoff_reservation_locked(k)
    /\ MgrReturn(k, "backoff", 0)
    /\ UNCHANGED <<dma_buf_reserve_lock, dma_buf_reserve_counter, bo_val_seq,
                   fence_excl, fence_shared, list, mpc, cur, val_seq, mret,
                   fence_new, nfences, mcalls>>
    /\ UNCHANGED fence_vars
    /\ UNCHANGED val_refcount
    /\ UNCHANGED wait_vars
    /\ UNCHANGED fence_refs

BackoffNext ==
    \/ MgrNext
    \/ \E k \in Batches : backoff_again(k)
BackoffSpec == MgrInit /\ [][BackoffNext]_vars

\* ---- dmabufmgr_wait_timeout, fence by fence
MaxBudget == 2

\* the timeouts a caller passes: no time, some jiffies, and negative ones on
\* either side of -EINVAL
WaitBudgets == {-(EINVAL + 1), -1} \cup (0..MaxBudget)

\* dma_fence_wait_timeout(fence, intr, tm) of part_003 lines 318-368 on a fence
\* that is signaled or not when the call takes the lock: the values it can
\* return, each with whether the fence is signaled when it returns
FenceWaitRets(sig, i, tm) ==
    IF tm < 0 THEN {<<-EINVAL, sig>>}
    ELSE IF sig THEN {<<tm, TRUE>>}
    ELSE (IF i THEN {<<-ERESTARTSYS, FALSE>>} ELSE {})
         \cup (IF i /\ tm > 0 THEN {<<-ERESTARTSYS, TRUE>>} ELSE {})
         \cup {<<0, FALSE>>}
         \cup (IF tm > 0 THEN {<<r, TRUE>> : r \in 0..tm} ELSE {})

\* loops that look at the first entry of the list only
walk_first_entry_only(ents, e, n) ==
    IF e = 1 /\ ents # <<>> /\ n <= ents[1].num_fences THEN <<1, n>>
    ELSE <<Len(ents) + 1, 1>>

\* the entry and fence the two loops of lines 219-220 come to next, from
\* fence n of entry e on; past the list when there is none
RECURSIVE WalkPos(_, _, _)
WalkPos(ents, e, n) ==
    IF e > Len(ents) THEN <<e, 1>>
    ELSE IF n > ents[e].num_fences THEN WalkPos(ents, e + 1, 1)
    ELSE <<e, n>>

WaitOnly ==
    /\ UNCHANGED <<dma_buf_reserve_lock, dma_buf_reserve_counter, bo_reserved,
                   bo_val_seq, fence_excl, fence_shared, list, entry, cur, val_seq,
                   mret, fence_new, nfences, mcalls, fence_refs, val_refcount>>
    /\ UNCHANGED fence_vars

\* dmabufmgr_wait_timeout(list, intr, timeout), line 216: ret = timeout
wait_timeout_enter(k, i, tm) ==
    /\ mpc[k] = "held"
    /\ mpc' = [mpc EXCEPT ![k] = "wait_fences"]
    /\ walk' = [walk EXCEPT ![k] = [entry |-> 1, fence |-> 1, ret |-> tm,
                                    intr |-> i, timeout |-> tm]]
    /\ mlast' = NoMgrCall
    /\ UNCHANGED fence_signaled
    /\ WaitOnly

\* lines 219-227: the next dma_fence_wait_timeout and the test of its result,
\* or the return of line 229 when no fence is left
wait_timeout_fence(k) ==
    /\ mpc[k] = "wait_fences"
    /\ LET w == walk[k]
           pos == WalkPos(entry[k], w.entry, w.fence)
       IN
       IF pos[1] > Len(entry[k])
       THEN /\ walk' = [walk EXCEPT ![k] = [w EXCEPT !.entry = pos[1], !.fence = pos[2]]]
            /\ mpc' = [mpc EXCEPT ![k] = "held"]
            /\ MgrReturn(k, "wait_timeout", w.ret)
            /\ UNCHANGED fence_signaled
       ELSE LET f == entry[k][pos[1]].fences[pos[2]] IN
            \E o \in FenceWaitRets(f \in fence_signaled, w.intr, w.ret) :
                /\ fence_signaled' = IF o[2] THEN fence_signaled \cup {f}
                                     ELSE fence_signaled
                /\ IF o[1] <= 0
                   THEN /\ walk' = [walk EXCEPT ![k] =
                                       [w EXCEPT !.entry = pos[1], !.fence = pos[2],
                                                 !.ret = o[1]]]
                        /\ mpc' = [mpc EXCEPT ![k] = "held"]
                        /\ MgrReturn(k, "wait_timeout", o[1])
                   ELSE /\ walk' = [walk EXCEPT ![k] =
                                       [w EXCEPT !.entry = pos[1], !.fence = pos[2] + 1,
                                                 !.ret = o[1]]]
                        /\ mlast' = NoMgrCall
                        /\ UNCHANGED mpc
    /\ WaitOnly

\* dma_fence_signal on one of the fences attached to the buffers, by whoever
\* produces it
fence_signaled_by_owner(f) ==
    /\ f \in DOMAIN fence_refs
    /\ f \notin fence_signaled
    /\ fence_signaled' = fence_signaled \cup {f}
    /\ mlast' = NoMgrCall
    /\ UNCHANGED <<mpc, walk>>
    /\ WaitOnly

\* one batch reserves a list and waits for what it has collected, while the
\* fences get signaled; every buffer has two shared fences or an exclusive one
WaitConfigs == {<<2, FALSE>>, <<0, TRUE>>}

WaitInit ==
    /\ FenceInit({{}})
    /\ \E c \in [Bufs -> WaitConfigs] :
           MgrIdle([b \in Bufs |-> PriorShared(b, c[b][1])],
                   [b \in Bufs |-> PriorExcl(b, c[b][2])])
WaitNext ==
    \/ \E k \in Batches :
        \/ \E l \in Lists : ReserveCall(k, l, 1)
        \/ reserve_retry(k)
        \/ reserve_entry(k)
        \/ dmabufmgr_backoff_reservation(k)
        \/ \E i \in BOOLEAN, tm \in WaitBudgets : wait_timeout_enter(k, i, tm)
        \/ wait_timeout_fence(k)
    \/ \E f \in DOMAIN fence_refs : fence_signaled_by_owner(f)
WaitSpec == WaitInit /\ [][WaitNext]_vars

\* ---- a commit of a list that the caller has not reserved
\* dmabufmgr_fence_buffer_objects(fence, list) up to its spin_lock, called by a
\* batch that holds nothing on a list of cleared entries: lines 250-271 test
\* neither entry->reserved nor the buffers' reservation
fence_unreserved_list(k, l) ==
    /\ mpc[k] = "idle"
    /\ FirstIdleBatch(k)
    /\ l # <<>>
    /\ mcalls < MaxReserves
    /\ mcalls' = mcalls + 1
    /\ list' = [list EXCEPT ![k] = l]
    /\ entry' = [entry EXCEPT ![k] = [i \in DOMAIN l |-> ClearedEntry]]
    /\ nfences' = nfences + 1
    /\ fence_new' = [fence_new EXCEPT ![k] = nfences + 1]
    /\ fence_shared' = ReleasedShared(l)
    /\ fence_refs' = PutFences(l, fence_refs) @@ ((nfences + 1) :> 1)
    /\ fence_excl' = ReleasedExcl(l)
    /\ mpc' = [mpc EXCEPT ![k] = "commit"]
    /\ mlast' = NoMgrCall
    /\ UNCHANGED <<dma_buf_reserve_lock, dma_buf_reserve_counter, bo_reserved,
                   bo_val_seq, cur, val_seq, mret>>
    /\ UNCHANGED fence_vars
    /\ UNCHANGED val_refcount
    /\ UNCHANGED wait_vars

UnreservedNext ==
    \/ MgrNext
    \/ \E k \in Batches : \E l \in Lists : fence_unreserved_list(k, l)
UnreservedSpec == MgrInit /\ [][UnreservedNext]_vars

\* dma_fence_is_signaled(fence)
dma_fence_is_signaled == DMA_FENCE_FLAG_SIGNALED \in flags

\* ---- properties of the fence

\* C1: the SIGNALED flag is never cleared once set, and it goes from clear to
\* set at most once in the life of the fence, whatever the interleaving of
\* signal, add_callback, remove_callback, waits and enable_signaling hooks.
C1_SignaledStep ==
    /\ dma_fence_is_signaled => dma_fence_is_signaled'
    /\ (sig_sets' = sig_sets + 1) <=> (~dma_fence_is_signaled /\ dma_fence_is_signaled')
    /\ sig_sets' \in {sig_sets, sig_sets + 1}
    /\ sig_sets' <= 1
C1_SignaledSetOnce == [][C1_SignaledStep]_vars

\* a second dma_fence_signal has just returned on the signaled fence
C1_Witness ==
    /\ dma_fence_is_signaled
    /\ sig_sets = 1
    /\ last.op = "signal"
    /\ last.ret = -EINVAL

\* C2: dma_fence_signal on a signaled fence returns -EINVAL and leaves flags,
\* queue, callbacks and tasks as they were; at most one dma_fence_signal
\* returns 0, and that one finds the fence unsignaled, sets SIGNALED, runs every
\* queued callback and makes every queued waiter runnable.
C2_SignalStep ==
    last'.op = "signal" =>
        /\ dma_fence_is_signaled =>
              /\ last'.ret = -EINVAL
              /\ flags' = flags
              /\ event_queue' = event_queue
              /\ fired' = fired
              /\ state' = state
              /\ sig_ok' = sig_ok
        /\ ~dma_fence_is_signaled => last'.ret = 0
        /\ last'.ret = 0 =>
              /\ ~dma_fence_is_signaled
              /\ dma_fence_is_signaled'
              /\ sig_ok' = sig_ok + 1
              /\ QueuedCbs(event_queue') = {}
              /\ \A c \in QueuedCbs(event_queue) : fired'[c] = fired[c] + 1
              /\ \A u \in QueuedWaiters(event_queue) : state'[u] = TASK_RUNNING
C2_SignalOnce == [][C2_SignalStep /\ sig_ok' <= 1]_vars

\* a dma_fence_signal has just returned 0 and has run a callback and woken a
\* sleeping waiter
C2_Witness ==
    /\ last.op = "signal"
    /\ last.ret = 0
    /\ \E c \in Cbs : fired[c] = 1
    /\ \E u \in Threads :
          /\ pc[u] = "w_sched"
          /\ ret[u] > 0
          /\ state[u] = TASK_RUNNING
          /\ WaitEntry(u) \in Range(event_queue)

\* C3: ops->enable_signaling is invoked at most once for the fence, whatever
\* the interleaving of add_callback, waits, fence_enable_sw_signaling and signal.
C3_HookAtMostOnce == hook_calls <= 1

\* the hook ran once, a waiter that found signaling enabled sleeps, and an
\* add_callback that found it enabled too has just returned
C3_Witness ==
    /\ hook_calls = 1
    /\ last.op = "add_callback"
    /\ last.ret = 0
    /\ \E u \in Threads : pc[u] = "w_sched" /\ op[u] \in {"wait", "wait_timeout"}

\* C4: a callback is invoked at most once and only on a signaled fence; once
\* the fence is signaled no callback is queued, and every callback added with
\* success and not removed has been invoked (exactly once); until then it is
\* queued.
C4_CallbackOnce ==
    \A c \in Cbs :
        /\ fired[c] <= 1
        /\ fired[c] = 1 => dma_fence_is_signaled /\ registered[c]
        /\ dma_fence_is_signaled => c \notin QueuedCbs(event_queue)
        /\ (dma_fence_is_signaled /\ registered[c]) => fired[c] = 1
        /\ (~dma_fence_is_signaled /\ registered[c]) => c \in QueuedCbs(event_queue)

\* a callback ran although no dma_fence_signal call returned 0: the fence was
\* signaled inside the dma_fence_add_callback of another thread, whose hook
\* returned false and which has just returned -ENOENT
C4_Witness ==
    /\ dma_fence_is_signaled
    /\ sig_ok = 0
    /\ hook_calls = 1
    /\ last.op = "add_callback"
    /\ last.ret = -ENOENT
    /\ \E c \in Cbs : c # last.cb /\ fired[c] = 1

\* C5: dma_fence_add_callback returns 0 or -ENOENT; -ENOENT means the fence is
\* signaled, the callback is not queued and was not invoked by the call; 0 means
\* the callback is queued on a fence that is unsignaled; on a fence signaled at
\* entry the call returns -ENOENT.
C5_AddStep ==
    last'.op = "add_callback" =>
        /\ last'.ret \in {0, -ENOENT}
        /\ last'.ret = -ENOENT =>
              /\ dma_fence_is_signaled'
              /\ last'.cb \notin QueuedCbs(event_queue')
              /\ fired'[last'.cb] = fired[last'.cb]
              /\ registered'[last'.cb] = registered[last'.cb]
        /\ last'.ret = 0 =>
              /\ ~dma_fence_is_signaled'
              /\ last'.cb \in QueuedCbs(event_queue')
        /\ dma_fence_is_signaled => last'.ret = -ENOENT
C5_AddCallback == [][C5_AddStep]_vars

\* an add_callback on an unsignaled fence has just returned -ENOENT: its own
\* hook returned false; the callback was not invoked and is not queued
C5_Witness ==
    /\ last.op = "add_callback"
    /\ last.ret = -ENOENT
    /\ sig_ok = 0
    /\ fired[last.cb] = 0
    /\ last.cb \notin QueuedCbs(event_queue)

\* C6: dma_fence_remove_callback returns true if and only if the callback was
\* still queued on the fence when it was called: false for a callback that was
\* never registered or was removed already, and false on a signaled fence.
C6_RemoveStep ==
    last'.op = "remove_callback" =>
        /\ (last'.ret = 1) <=> (last'.cb \in QueuedCbs(event_queue))
        /\ dma_fence_is_signaled => last'.ret = 0
        /\ last'.ret \in {0, 1}
C6_RemoveTrueIffQueued == [][C6_RemoveStep]_vars

\* C7: when dma_fence_remove_callback returns true for a registered callback,
\* the callback leaves the queue without being invoked and is never invoked
\* afterwards; on a signaled fence the call returns false and changes nothing.
C7_RemoveStep ==
    /\ last'.op = "remove_callback" =>
        /\ dma_fence_is_signaled =>
              /\ last'.ret = 0
              /\ flags' = flags
              /\ event_queue' = event_queue
              /\ fired' = fired
              /\ registered' = registered
              /\ state' = state
        /\ last'.ret = 1 =>
              /\ ~dma_fence_is_signaled
              /\ last'.cb \notin QueuedCbs(event_queue')
              /\ fired'[last'.cb] = fired[last'.cb]
              /\ cancelled'[last'.cb]
    /\ \A c \in Cbs :
        /\ (cancelled[c] /\ cancelled'[c]) => fired'[c] = fired[c]
        /\ cancelled'[c] => (fired'[c] = 0 /\ c \notin QueuedCbs(event_queue'))
C7_RemovedNeverInvoked == [][C7_RemoveStep]_vars

\* a callback was added, then removed with true, then the fence was signaled
\* by a dma_fence_signal that has just returned 0: the callback did not run
C7_Witness ==
    /\ last.op = "signal"
    /\ last.ret = 0
    /\ \E c \in Cbs : cancelled[c] /\ fired[c] = 0

\* C8: dma_fence_wait returns 0, and dma_fence_wait_timeout returns a positive
\* value, only on a signaled fence; a dma_fence_wait with intr false returns
\* only on a signaled fence, and returns 0.
C8_WaitSuccessMeansSignaled ==
    /\ (last.op = "wait" /\ last.ret = 0) => dma_fence_is_signaled
    /\ (last.op \in {"wait", "wait_timeout"} /\ last.raw > 0) => dma_fence_is_signaled
    /\ (last.op = "wait" /\ ~last.intr) => (last.ret = 0 /\ dma_fence_is_signaled)
    /\ last.op = "wait" => last.ret \in {0, -ERESTARTSYS}

\* an uninterruptible dma_fence_wait has just returned 0 on a fence that some
\* dma_fence_signal call signaled, after the enable_signaling hook had run
C8_Witness ==
    /\ last.op = "wait"
    /\ ~last.intr
    /\ last.ret = 0
    /\ sig_ok = 1
    /\ hook_calls = 1
    /\ dma_fence_is_signaled

\* C9: under a fair scheduler no wakeup is missed: a dma_fence_wait that is
\* under way on a fence that is or becomes signaled (by dma_fence_signal or by
\* a hook returning false) returns, also when the fence is signaled after the
\* waiter has dropped the lock and before it sleeps.
C9_NoMissedWakeup ==
    \A t \in Threads :
        (op[t] = "wait" /\ pc[t] \in {"w_hook", "w_sched"} /\ dma_fence_is_signaled)
            ~> (pc[t] = "idle")

\* the fence is signaled while an uninterruptible dma_fence_wait has dropped
\* the lock and stands before its schedule_timeout: it has set its sleep state,
\* the signal has made it runnable again
C9_Witness ==
    \E t \in Threads :
        /\ op[t] = "wait"
        /\ pc[t] = "w_hook"
        /\ ~intr[t]
        /\ state[t] = TASK_RUNNING
        /\ dma_fence_is_signaled

\* C10: for every timeout >= 0 and both values of intr, dma_fence_wait_timeout
\* returns 0 only when the timeout expired with the fence unsignaled, and on a
\* fence that is signaled when the wait returns it reports success: a positive
\* remaining time.
C10_ZeroIffTimedOut ==
    (last.op = "wait_timeout" /\ last.timeout >= 0) =>
        /\ last.ret = 0 => ~dma_fence_is_signaled
        /\ dma_fence_is_signaled => last.ret > 0

\* a dma_fence_wait_timeout has just returned the interrupted error
Interrupted == last.op = "wait_timeout" /\ last.ret = -ERESTARTSYS

\* C11 (as stated): an interrupted dma_fence_wait_timeout returns the
\* interrupted error with the unconsumed part of the timeout preserved, so that
\* the caller can tell how much of its timeout T was left: what is returned
\* determines the time left (here for T = LongTimeout).
C11_ResidueObservable ==
    \E k \in 0..LongTimeout :
        []((Interrupted /\ last.timeout = LongTimeout) => last.left = k)

\* C11 (amended): dma_fence_wait_timeout returns the interrupted error only
\* with intr true, never with intr false; what it returns then is -ERESTARTSYS
\* alone, which has replaced the time left; in the wait loop that happens only
\* while time is left, and before the wait has slept the whole timeout is left.
C11_InterruptedReturn ==
    last.op = "wait_timeout" =>
        /\ ~last.intr => last.ret # -ERESTARTSYS
        /\ last.ret = -ERESTARTSYS =>
              /\ last.intr
              /\ last.raw = -ERESTARTSYS
              /\ last.left \in 0..last.timeout
              /\ last.left > 0 \/ last.left = last.timeout
        /\ (last.ret >= 0 /\ last.timeout >= 0) => last.ret = last.left

\* a dma_fence_wait_timeout has just returned the interrupted error after it
\* slept through a part of its timeout, on a fence that is not signaled
C11_Witness ==
    /\ Interrupted
    /\ last.timeout = LongTimeout
    /\ last.left > 0
    /\ last.left < last.timeout
    /\ ~dma_fence_is_signaled

\* ---- properties of the reservation manager

\* the buffers a list names
ListBufs(l) == {l[i].bo : i \in DOMAIN l}

\* batch k holds buffer b: one of its entries for b is flagged reserved, or its
\* commit has cleared the flags and not yet unreserved the buffers
Holds(k, b) ==
    \/ \E i \in DOMAIN entry[k] : entry[k][i].reserved /\ list[k][i].bo = b
    \/ mpc[k] = "commit" /\ b \in ListBufs(list[k])

\* C12: a buffer is held by at most one batch at a time, the buffer's reserved
\* flag is set and carries that batch's ticket for as long as it is held, and
\* from the successful return of a batch's reserve up to its commit or
\* back-off every buffer of its list stays held by it, so that no other
\* batch's reserve acquires one of them.
C12_MutualExclusion ==
    \A b \in Bufs :
        /\ \A j, k \in Batches : (Holds(j, b) /\ Holds(k, b)) => j = k
        /\ \A k \in Batches :
               Holds(k, b) => (bo_reserved[b] /\ bo_val_seq[b] = val_seq[k])
        /\ \A k \in Batches :
               (mpc[k] \in {"held", "commit"} /\ b \in ListBufs(list[k]))
                   => Holds(k, b)

\* a batch sleeps on a buffer that another batch holds after its reserve
\* succeeded
C12_Witness ==
    \E j, k \in Batches :
        /\ j # k
        /\ mpc[k] = "held"
        /\ mpc[j] = "wait_again"
        /\ Holds(k, list[j][cur[j]].bo)
        /\ Len(list[k]) > 1

\* C13: when dmabufmgr_reserve_buffers has returned 0 on a non-empty list, and
\* until the batch commits or backs off, every entry of the list is flagged
\* reserved and every buffer of the list is reserved under the ticket the
\* batch drew for its last attempt.
C13_ReservedOnSuccess ==
    \A k \in Batches :
        (mpc[k] = "held" /\ list[k] # <<>>) =>
            /\ \A i \in DOMAIN list[k] :
                   /\ entry[k][i].reserved
                   /\ bo_reserved[list[k][i].bo]
                   /\ bo_val_seq[list[k][i].bo] = val_seq[k]
            /\ val_seq[k] \in 1..dma_buf_reserve_counter
            /\ \A j \in Batches : (j # k /\ mpc[j] # "idle") => val_seq[j] # val_seq[k]

\* a reserve has just returned 0 on a list of two entries, after an attempt
\* that was backed off
C13_Witness ==
    /\ mlast.op = "reserve"
    /\ mlast.ret = 0
    /\ Len(list[mlast.batch]) > 1
    /\ mpc[mlast.batch] = "held"
    /\ dma_buf_reserve_counter > mcalls
    /\ val_seq[mlast.batch] = dma_buf_reserve_counter

\* C14: when dmabufmgr_backoff_reservation or dmabufmgr_fence_buffer_objects
\* has returned for a batch that had reserved its list, no entry of the list
\* is flagged reserved and no buffer of the list is reserved; and for as long
\* as the batch makes no new call, no buffer is reserved under its ticket.
C14_ReleasedAfterEnd ==
    /\ mlast.op \in {"backoff", "fence"} =>
           /\ mpc[mlast.batch] = "idle"
           /\ \A i \in DOMAIN list[mlast.batch] :
                  /\ ~entry[mlast.batch][i].reserved
                  /\ ~bo_reserved[list[mlast.batch][i].bo]
    /\ \A k \in Batches, b \in Bufs :
           (mpc[k] = "idle" /\ val_seq[k] # 0) =>
               ~(bo_reserved[b] /\ bo_val_seq[b] = val_seq[k])

\* a commit of a list of two entries has just returned while another batch
\* sleeps on one of its buffers
C14_Witness ==
    /\ mlast.op = "fence"
    /\ Len(list[mlast.batch]) > 1
    /\ \E j \in Batches :
           /\ mpc[j] = "wait_again"
           /\ list[j][cur[j]].bo \in ListBufs(list[mlast.batch])

\* a reserve call of batch k is under way
InProgress(k) == mpc[k] \in {"retry", "scan", "wait_busy", "wait_again"}

\* batch k sleeps in its reserve
Sleeps(k) == mpc[k] \in {"wait_busy", "wait_again"}

\* batch k is inside an attempt and val_seq[k] is its ticket; a batch that
\* sleeps after -EAGAIN has given its attempt up and draws a new ticket at retry
HasTicket(k) == mpc[k] \in {"scan", "wait_busy"}

\* batch k sleeps on a buffer that is reserved under the ticket of batch j,
\* whose own reserve is under way
BlockedOn(k, j) ==
    /\ j # k
    /\ Sleeps(k)
    /\ InProgress(j)
    /\ bo_reserved[list[k][cur[k]].bo]
    /\ bo_val_seq[list[k][cur[k]].bo] = val_seq[j]

\* C15: the reserve calls under way are never all asleep on buffers reserved
\* by one another, and the attempt with the oldest ticket among those under way
\* never sleeps on a buffer that another reserve under way has reserved.
C15_NoDeadlock ==
    /\ (\E k \in Batches : InProgress(k)) =>
           \E k \in Batches : InProgress(k) /\ \A j \in Batches : ~BlockedOn(k, j)
    /\ \A k \in Batches :
           (HasTicket(k) /\ \A j \in Batches :
                               (j # k /\ HasTicket(j)) => val_seq[k] < val_seq[j])
               => \A j \in Batches : ~BlockedOn(k, j)

\* a batch sleeps on a buffer that another batch, back with a new reserve,
\* has acquired on its way through a list of two entries
C15_Witness ==
    \E j, k \in Batches :
        /\ j # k
        /\ mpc[j] = "wait_again"
        /\ mpc[k] = "scan"
        /\ cur[k] > 1
        /\ Holds(k, list[j][cur[j]].bo)

\* the reserve of batch k has returned 0, or has just returned because a
\* signal interrupted its sleep
ReserveDone(k) ==
    \/ mpc[k] = "held"
    \/ mlast = [op |-> "reserve", batch |-> k, ret |-> -ERESTARTSYS]

\* C16: under fair scheduling, with batches that commit or back off once their
\* reserve has succeeded, every reserve call eventually returns 0 unless a
\* signal interrupts its sleep; in particular both of two batches that list
\* the same two buffers in opposite orders, exclusively, get their buffers.
C16_ReserveEventuallySucceeds ==
    \A k \in Batches : InProgress(k) ~> ReserveDone(k)

\* batch 1 listed [1, 2] and batch 2 listed [2, 1], both exclusive; batch 2
\* lost, backed off, slept, drew a new ticket and its reserve has just
\* returned 0
C16_Witness ==
    /\ list[1] = <<[bo |-> 1, shared |-> FALSE], [bo |-> 2, shared |-> FALSE]>>
    /\ list[2] = <<[bo |-> 2, shared |-> FALSE], [bo |-> 1, shared |-> FALSE]>>
    /\ mlast = [op |-> "reserve", batch |-> 2, ret |-> 0]
    /\ mcalls = 2
    /\ val_seq[2] > 2
    /\ dma_buf_reserve_counter = val_seq[2]

\* C17: fence_shared_count of every buffer is at most DMA_BUF_MAX_SHARED_FENCE
\* after every sequence of reserve, commit and back-off calls, over lists that
\* mix shared and exclusive entries and may name a buffer more than once.
C17_SharedCountBounded ==
    \A b \in Bufs : Len(fence_shared[b]) <= DMA_BUF_MAX_SHARED_FENCE

\* the fences attached to buffer b
FenceSet(b) == Range(fence_shared[b]) \cup ({fence_excl[b]} \ {NoFence})

\* C18: while a batch holds its list after a successful reserve, each entry
\* has collected: all the shared fences of its buffer, in order, if its intent
\* is exclusive and the buffer has shared fences; otherwise just the exclusive
\* fence, if the buffer has one; otherwise nothing.  A shared entry on a buffer
\* with shared fences and no exclusive fence has collected nothing.
C18_SnapshotRule ==
    \A k \in Batches :
        mpc[k] = "held" =>
            \A i \in DOMAIN list[k] :
                LET b == list[k][i].bo
                    e == entry[k][i]
                IN  /\ e.num_fences = Len(e.fences)
                    /\ (~list[k][i].shared /\ Len(fence_shared[b]) > 0)
                           => e.fences = fence_shared[b]
                    /\ ((list[k][i].shared \/ Len(fence_shared[b]) = 0)
                            /\ fence_excl[b] # NoFence)
                           => e.fences = <<fence_excl[b]>>
                    /\ ((list[k][i].shared \/ Len(fence_shared[b]) = 0)
                            /\ fence_excl[b] = NoFence)
                           => e.num_fences = 0

\* a shared entry on a buffer with two shared fences and no exclusive fence
\* has collected nothing
C18_Witness ==
    \E k \in Batches :
        /\ mpc[k] = "held"
        /\ \E i \in DOMAIN list[k] :
               /\ list[k][i].shared
               /\ Len(fence_shared[list[k][i].bo]) = 2
               /\ fence_excl[list[k][i].bo] = NoFence
               /\ entry[k][i].num_fences = 0

\* C19 as stated: what an exclusive entry has collected is the whole fence set
\* of its buffer, the exclusive fence and all the shared ones.
C19_ExclusiveCollectsAll ==
    \A k \in Batches :
        mpc[k] = "held" =>
            \A i \in DOMAIN list[k] :
                ~list[k][i].shared =>
                    Range(entry[k][i].fences) = FenceSet(list[k][i].bo)

\* C19, as the code has it: an exclusive entry has collected the shared fences
\* of its buffer and not its exclusive fence when the buffer has shared
\* fences, and the exclusive fence when it has none; what it has collected is
\* the whole fence set of the buffer unless the buffer carries an exclusive
\* fence next to shared ones, and then the exclusive fence is what is missing.
C19_ExclusiveCollected ==
    \A k \in Batches :
        mpc[k] = "held" =>
            \A i \in DOMAIN list[k] :
                ~list[k][i].shared =>
                    LET b == list[k][i].bo
                        got == Range(entry[k][i].fences)
                    IN  /\ got \subseteq FenceSet(b)
                        /\ Range(fence_shared[b]) \subseteq got
                        /\ FenceSet(b) \ got =
                               IF Len(fence_shared[b]) > 0
                                  /\ fence_excl[b] \notin Range(fence_shared[b])
                               THEN {fence_excl[b]} \ {NoFence}
                               ELSE {}

\* an exclusive entry on a buffer that carries an exclusive fence and shared
\* ones has collected the shared ones only
C19_Witness ==
    \E k \in Batches :
        /\ mpc[k] = "held"
        /\ \E i \in DOMAIN list[k] :
               /\ ~list[k][i].shared
               /\ fence_excl[list[k][i].bo] # NoFence
               /\ Len(fence_shared[list[k][i].bo]) > 0
               /\ fence_excl[list[k][i].bo] \notin Range(entry[k][i].fences)
               /\ entry[k][i].fences = fence_shared[list[k][i].bo]

\* the fence the last commit on buffer b attached: the newest shared one if
\* there is any (an exclusive commit leaves none), else the exclusive one
LastFence(b) ==
    IF Len(fence_shared[b]) > 0 THEN fence_shared[b][Len(fence_shared[b])]
    ELSE fence_excl[b]

\* a commit has just returned and has made its fence the last one of every
\* buffer of its list
CommitAttached ==
    (mlast.op = "fence" /\ list[mlast.batch] # <<>>) =>
        \A b \in ListBufs(list[mlast.batch]) : LastFence(b) = fence_new[mlast.batch]

\* C20 as stated: a reserve that succeeds on a buffer after a commit has
\* attached fence F to it has collected F for that buffer, whatever the
\* intents of the commit and of the reserve.
C20_RoundTrip ==
    /\ CommitAttached
    /\ \A k \in Batches :
           mpc[k] = "held" =>
               \A i \in DOMAIN list[k] :
                   LastFence(list[k][i].bo) # NoFence
                       => LastFence(list[k][i].bo) \in Range(entry[k][i].fences)

\* C20, as the code has it: the commit makes F the last fence of each buffer of
\* its list, and the next successful reserve has collected F for the buffer
\* unless both the commit and the reserve were shared; a shared reserve after
\* a shared commit has collected the exclusive fence or nothing, which is F
\* only if F is in the exclusive slot too.
C20_RoundTripUnlessShared ==
    /\ CommitAttached
    /\ \A k \in Batches :
           mpc[k] = "held" =>
               \A i \in DOMAIN list[k] :
                   LET b == list[k][i].bo
                       got == Range(entry[k][i].fences)
                   IN  IF list[k][i].shared /\ Len(fence_shared[b]) > 0
                       THEN got = {fence_excl[b]} \ {NoFence}
                       ELSE LastFence(b) # NoFence => LastFence(b) \in got

\* batch j has committed a fence with a shared entry for a buffer, and the
\* reserve of batch k that followed has collected that fence with an
\* exclusive entry
C20_Witness ==
    \E j, k \in Batches :
        /\ j # k
        /\ mpc[j] = "idle"
        /\ fence_new[j] # NoFence
        /\ mpc[k] = "held"
        /\ \E i \in DOMAIN list[k], h \in DOMAIN list[j] :
               /\ list[k][i].bo = list[j][h].bo
               /\ list[j][h].shared
               /\ ~list[k][i].shared
               /\ LastFence(list[k][i].bo) = fence_new[j]
               /\ fence_new[j] \in Range(entry[k][i].fences)

\* the slots that point to fence f, over the buffers of the set bs
SlotsOf(bs, f) ==
    {s \in bs \X (0..(DMA_BUF_MAX_SHARED_FENCE + MaxList)) :
        \/ s[2] = 0 /\ fence_excl[s[1]] = f
        \/ s[2] \in 1..Len(fence_shared[s[1]]) /\ fence_shared[s[1]][s[2]] = f}

\* the shared entries of list l for buffer b
SharedEntries(l, b) == {i \in DOMAIN l : l[i].bo = b /\ l[i].shared}

\* n times the fence f
Repeat(f, n) == [j \in 1..n |-> f]

\* the first loop of a commit of batch k: every buffer its list names with an
\* exclusive entry loses all its fences, one reference is dropped for each
\* slot that pointed to a fence, and nothing else changes
C21_DropStep(k) ==
    /\ \A b \in Bufs :
           IF b \in ExclBufs(list[k])
           THEN fence_shared'[b] = <<>> /\ fence_excl'[b] = NoFence
           ELSE fence_shared'[b] = fence_shared[b] /\ fence_excl'[b] = fence_excl[b]
    /\ \A f \in DOMAIN fence_refs :
           fence_refs'[f] = fence_refs[f] - Cardinality(SlotsOf(ExclBufs(list[k]), f))
    /\ fence_refs'[fence_new'[k]] = 1

\* the second loop: a buffer named by an exclusive entry gets the fence in
\* fence_excl, and each shared entry appends the fence to its buffer's shared
\* fences; one reference is taken per entry
C21_StoreStep(k) ==
    /\ \A b \in Bufs :
           /\ fence_excl'[b] =
                  IF b \in ExclBufs(list[k]) THEN fence_new[k] ELSE fence_excl[b]
           /\ fence_shared'[b] =
                  fence_shared[b]
                      \o Repeat(fence_new[k], Cardinality(SharedEntries(list[k], b)))
           /\ b \in ExclBufs(list[k]) => fence_shared[b] = <<>>
    /\ fence_refs'[fence_new[k]] = fence_refs[fence_new[k]] + Len(list[k])
    /\ \A f \in DOMAIN fence_refs :
           f # fence_new[k] => fence_refs'[f] = fence_refs[f]

C21_Step ==
    \A k \in Batches :
        /\ (mpc[k] = "held" /\ mpc'[k] = "commit") => C21_DropStep(k)
        /\ (mpc[k] = "commit" /\ mpc'[k] = "idle") => C21_StoreStep(k)

\* C21, as the code has it: a commit with fence G leaves a buffer that its list
\* names once, exclusively, with fence_excl = G and no shared fence, one
\* reference dropped for each fence that was attached; it leaves a buffer that
\* its list names once, shared, with fence_excl unchanged and G appended to the
\* shared fences.  For a buffer the list names more than once, fence_excl is G
\* if one of the entries is exclusive, and the shared fences are those left by
\* the first loop followed by one G per shared entry.
C21_CommitStores == [][C21_Step]_vars

\* C21 as stated for every exclusive entry: after the commit its buffer has
\* fence_excl = G and no shared fence.
C21_ExclusiveLeavesNoShared ==
    (mlast.op = "fence" /\ list[mlast.batch] # <<>>) =>
        \A i \in DOMAIN list[mlast.batch] :
            ~list[mlast.batch][i].shared =>
                /\ fence_excl[list[mlast.batch][i].bo] = fence_new[mlast.batch]
                /\ fence_shared[list[mlast.batch][i].bo] = <<>>

\* a commit has just returned whose list has an exclusive entry and a shared
\* entry for different buffers; the first has the new fence alone, its old
\* fences have lost their reference, and the second has the new fence last
C21_Witness ==
    /\ mlast.op = "fence"
    /\ \E i, j \in DOMAIN list[mlast.batch] :
           LET l == list[mlast.batch]
               g == fence_new[mlast.batch]
           IN  /\ ~l[i].shared
               /\ l[j].shared
               /\ l[i].bo # l[j].bo
               /\ fence_excl[l[i].bo] = g
               /\ fence_shared[l[i].bo] = <<>>
               /\ Len(fence_shared[l[j].bo]) = DMA_BUF_MAX_SHARED_FENCE
               /\ LastFence(l[j].bo) = g
               /\ fence_refs[g] = 3
               /\ \E f \in DOMAIN fence_refs : f < 0 /\ fence_refs[f] = 0

\* batch k takes a step of its reserve
ReserveStep(k) ==
    /\ InProgress(k)
    /\ mpc'[k] # mpc[k] \/ cur'[k] # cur[k]

\* the reserve loop of batch k is at a shared entry whose buffer it can take
\* and whose shared fences fill the array
AtFullShared(k) ==
    /\ mpc[k] = "scan"
    /\ list[k][cur[k]].shared
    /\ Len(fence_shared[list[k][cur[k]].bo]) = DMA_BUF_MAX_SHARED_FENCE
    /\ \/ ~bo_reserved[list[k][cur[k]].bo]
       \/ bo_val_seq[list[k][cur[k]].bo] = val_seq[k]

C22_Step ==
    \A k \in Batches :
        ReserveStep(k) =>
            /\ UNCHANGED <<fence_shared, fence_excl, fence_refs>>
            /\ AtFullShared(k) <=>
                   mlast' = [op |-> "reserve", batch |-> k, ret |-> -EINVAL]
            /\ AtFullShared(k) =>
                   /\ mpc'[k] = "idle"
                   /\ dma_buf_reserve_lock' = 0
                   /\ \A i \in DOMAIN list[k] :
                          /\ ~entry'[k][i].reserved
                          /\ entry'[k][i].num_fences = 0
                          /\ (entry[k][i].reserved \/ i = cur[k])
                                 => ~bo_reserved'[list[k][i].bo]
                   /\ \A b \in Bufs :
                          ~(bo_reserved'[b] /\ bo_val_seq'[b] = val_seq[k])

AtOwnBuffer(k) ==
    /\ mpc[k] = "scan"
    /\ \E j \in 1..(cur[k] - 1) :
           /\ list[k][j].bo = list[k][cur[k]].bo
           /\ entry[k][j].reserved
    /\ bo_reserved[list[k][cur[k]].bo]
    /\ bo_val_seq[list[k][cur[k]].bo] = val_seq[k]

C23_Step ==
    \A k \in Batches :
        (ReserveStep(k) /\ AtOwnBuffer(k) /\ ~AtFullShared(k)) =>
            /\ mpc'[k] \in {"scan", "held"}
            /\ val_seq'[k] = val_seq[k]
            /\ bo_reserved' = bo_reserved
            /\ bo_val_seq' = bo_val_seq
            /\ \A j \in 1..cur[k] : entry'[k][j].reserved
            /\ IF cur[k] = Len(list[k])
               THEN mlast' = [op |-> "reserve", batch |-> k, ret |-> 0]
               ELSE cur'[k] = cur[k] + 1 /\ mpc'[k] = "scan"

C24_Step ==
    \A t \in Threads :
        (<<t, FALSE>> \in hook_ret') =>
            /\ DMA_FENCE_FLAG_SIGNALED \in flags'
            /\ (pc[t] = "ac_hook") =>
                   /\ last'.op = "add_callback"
                   /\ last'.ret = -ENOENT
                   /\ cb[t] \notin QueuedCbs(event_queue')
                   /\ ~registered'[cb[t]]
            /\ (pc[t] = "es_hook") => last'.op = "enable_sw_signaling"
            /\ (pc[t] = "w_hook") =>
                   /\ pc'[t] = "w_sched"
                   /\ state'[t] = TASK_RUNNING

\* C24: when ops->enable_signaling returns false the fence is signaled in the
\* same step: dma_fence_add_callback returns -ENOENT with the callback not
\* queued, fence_enable_sw_signaling returns with the fence signaled, and a
\* waiter is made runnable and then returns from its wait without anybody
\* else having to call dma_fence_signal.
C24_HookFalseSignals ==
    /\ [][C24_Step]_vars
    /\ \A t \in Threads :
           (<<t, FALSE>> \in hook_ret /\ pc[t] = "w_sched") ~> (pc[t] = "idle")

\* a wait is the only call made so far; it called the hook and has returned
\* with time left, the fence signaled
C24_Witness ==
    /\ last.op \in {"wait", "wait_timeout"}
    /\ last.raw > 0
    /\ ncalls = 1
    /\ hook_calls = 1
    /\ sig_sets = 1
    /\ DMA_FENCE_FLAG_SIGNALED \in flags

\* ---- the order of the callbacks

\* the queued callbacks, in queue order
CbsInOrder(q) ==
    LET cbs == SelectSeq(q, LAMBDA x : x.kind = "cb")
    IN [i \in 1..Len(cbs) |-> cbs[i].id]

\* a comes before b in the sequence s
Before(s, a, b) ==
    \E i, j \in 1..Len(s) : i < j /\ s[i] = a /\ s[j] = b

C25_Step ==
    LET old == CbsInOrder(event_queue)
        new == CbsInOrder(event_queue')
    IN
    \* a callback that gets queued goes behind the ones queued before it
    /\ \A c \in Range(new) \ Range(old) :
           \A d \in Range(new) \ {c} : Before(new, d, c)
    \* the queued callbacks keep their order
    /\ \A c, d \in Range(old) \cap Range(new) :
           Before(old, c, d) => Before(new, c, d)
    \* a signal runs the queued callbacks, each once, in that order
    /\ (fire_seq' # <<>>) =>
           /\ fire_seq' = old
           /\ DMA_FENCE_FLAG_SIGNALED \notin flags
           /\ DMA_FENCE_FLAG_SIGNALED \in flags'
    /\ (DMA_FENCE_FLAG_SIGNALED \notin flags
            /\ DMA_FENCE_FLAG_SIGNALED \in flags') => fire_seq' = old

\* C25: given that __add_wait_queue puts an entry behind the queued ones and
\* that the wake-up walks the queue from its front (neither is in the source
\* at hand), the callbacks of a fence stand in its queue in the order in which
\* their dma_fence_add_callback calls queued them, and the signal that fires
\* them invokes them in that order.
C25_CallbacksFifo == [][C25_Step]_vars

\* two callbacks have just been invoked, the one with the higher id first
C25_Witness ==
    /\ Len(fire_seq) = 2
    /\ fire_seq[1] > fire_seq[2]
    /\ fired[fire_seq[1]] = 1
    /\ fired[fire_seq[2]] = 1

\* ---- the fence's life time

C26_Step ==
    (released' # released) =>
        /\ refcount = 1
        /\ refcount' = 0
        /\ released = 0
        /\ released' = 1
        /\ event_queue = <<>>

\* C26: with every caller holding a reference for the duration of its call
\* and the creator holding one until the fence is signaled, release_fence
\* runs only in the dma_fence_put that takes the count from one to zero, it
\* runs once, and it finds the queue empty: no waiter's entry and no callback
\* is queued, the BUG_ON is not hit, and nobody is inside a call.
C26_ReleasedOnceEmpty ==
    /\ [][C26_Step]_vars
    /\ [](/\ ~bug
          /\ released \in {0, 1}
          /\ (released = 1) <=> (refcount = 0)
          /\ (released = 1) => \A t \in Threads : pc[t] = "idle")

\* the fence has been released after a thread waited on it and a callback that
\* was queued on it has run
C26_Witness ==
    /\ released = 1
    /\ refcount = 0
    /\ sig_sets = 1
    /\ \E c \in Cbs : fired[c] = 1
    /\ ncalls = MaxCalls

\* ---- the reference counts of the validation entries

C27_Step ==
    \A k \in Batches :
        /\ (val_refcount'[k] # val_refcount[k]) =>
               \/ mlast'.batch = k /\ mlast'.op \in {"validate_get", "validate_put"}
               \* a new list: dmabufmgr_validate_init for each of its entries
               \/ /\ mpc[k] = "idle"
                  /\ mpc'[k] # "idle"
                  /\ val_refcount'[k] = [i \in DOMAIN list'[k] |-> 1]
        /\ (mlast'.batch = k /\ mlast'.op = "validate_get") =>
               /\ list'[k] = list[k]
               /\ \E i \in DOMAIN list[k] :
                      val_refcount'[k] = [val_refcount[k] EXCEPT ![i] = @ + 1]
        /\ (mlast'.batch = k /\ mlast'.op = "validate_put") =>
               \E i \in DOMAIN list[k] :
                   IF mlast'.ret = 1
                   THEN /\ val_refcount[k][i] = 1
                        /\ list'[k] = Remove(list[k], i)
                        /\ val_refcount'[k] = Remove(val_refcount[k], i)
                   ELSE /\ mlast'.ret = 0
                        /\ val_refcount[k][i] > 1
                        /\ list'[k] = list[k]
                        /\ val_refcount'[k] = [val_refcount[k] EXCEPT ![i] = @ - 1]

\* C27: the refcount of a validation entry is 1 when the entry is put on its
\* list and changes in dmabufmgr_validate_get and dmabufmgr_validate_put only:
\* no step of a reserve, a back-off, a wait or a commit changes it.  A put
\* returns true exactly when the count was 1, and the entry is then off its
\* list; else the count goes down by one and the list stays as it is.
C27_OnlyGetPut == [][C27_Step]_vars

\* after a commit of a list of two entries, a put has taken the last
\* reference to one of them; the other one has a second reference
C27_Witness ==
    /\ mlast.op = "validate_put"
    /\ mlast.ret = 1
    /\ fence_new[mlast.batch] # NoFence
    /\ mpc[mlast.batch] = "idle"
    /\ val_refcount[mlast.batch] = <<MaxRefs>>
    /\ Len(list[mlast.batch]) = 1

\* ---- the hook and the fence's lock

\* thread t has dropped the lock and is about to call, or is inside,
\* ops->enable_signaling
InHook(t) == pc[t] \in {"ac_hook", "es_hook", "w_hook"}

C28_Step ==
    /\ (hook_calls' # hook_calls) =>
           \E t \in Threads :
               /\ InHook(t)
               /\ hook_ret' \cap ({t} \X BOOLEAN) # {}
               /\ lock = 0
               /\ DMA_FENCE_FLAG_NEED_SW_SIGNAL \in flags
    /\ \A t \in Threads :
           (~InHook(t) /\ InHook(t)') =>
               /\ DMA_FENCE_FLAG_NEED_SW_SIGNAL \notin flags
               /\ DMA_FENCE_FLAG_NEED_SW_SIGNAL \in flags'
               /\ lock' = 0
               /\ hook_calls' = hook_calls

\* C28: the thread that calls ops->enable_signaling does not hold the fence's
\* lock: NEED_SW_SIGNAL is set in the locked section before, the lock is free
\* when that section ends and when the hook is called, and while a thread is
\* at its hook another thread that calls dma_fence_signal gets the lock.
C28_HookOutsideLock ==
    /\ [][C28_Step]_vars
    /\ [](\A t \in Threads :
              InHook(t) =>
                  /\ lock # t
                  /\ DMA_FENCE_FLAG_NEED_SW_SIGNAL \in flags
                  /\ \A u \in Threads :
                         (FirstIdle(u) /\ ncalls < MaxCalls)
                             => ENABLED dma_fence_signal(u))

\* a dma_fence_signal has just returned 0 while another thread is at its hook
C28_Witness ==
    /\ last.op = "signal"
    /\ last.ret = 0
    /\ \E t \in Threads : InHook(t)

\* ---- when the caller's entry is queued

\* the entry of thread t's call is in the queue
OwnEntryQueued(t) ==
    \/ op[t] = "add_callback" /\ cb[t] \in QueuedCbs(event_queue)
    \/ op[t] \in {"wait", "wait_timeout"} /\ t \in QueuedWaiters(event_queue)

\* C29 as stated: a caller that has its hook still to call, or is inside it,
\* has no entry in the queue, in dma_fence_add_callback and in
\* dma_fence_wait_timeout alike.
C29_EnqueuedAfterHook == \A t \in Threads : InHook(t) => ~OwnEntryQueued(t)

C29_Step ==
    \A t \in Threads :
        \* a callback gets queued in the tail of its call: the hook was not
        \* needed, or it has returned true in this step
        /\ (pc[t] = "ac_hook" /\ cb[t] \in QueuedCbs(event_queue')) =>
               /\ hook_ret' = {<<t, TRUE>>}
               /\ last'.op = "add_callback"
               /\ last'.ret = 0
        \* a waiter is queued in the first locked section of its call, with
        \* its hook still to come
        /\ (pc'[t] = "w_hook" /\ pc[t] # "w_hook") =>
               /\ pc[t] = "idle"
               /\ t \notin QueuedWaiters(event_queue)
               /\ t \in QueuedWaiters(event_queue')
               /\ hook_calls' = hook_calls

\* C29 amended: dma_fence_add_callback queues the callback only after its
\* hook has returned and the lock is taken again; dma_fence_wait_timeout
\* queues the waiter before it drops the lock and calls the hook, so the
\* waiter is in the queue all the time the hook runs.
C29_CallbackAfterWaiterBefore ==
    /\ [][C29_Step]_vars
    /\ [](\A t \in Threads :
              /\ (pc[t] = "ac_hook") => cb[t] \notin QueuedCbs(event_queue)
              /\ (pc[t] = "w_hook") => t \in QueuedWaiters(event_queue))

\* a waiter is at its hook, queued, with a callback queued behind it by a
\* call that needed no hook
C29_Witness ==
    \E t \in Threads :
        /\ pc[t] = "w_hook"
        /\ Len(event_queue) = 2
        /\ event_queue[1] = WaitEntry(t)
        /\ event_queue[2].kind = "cb"

\* ---- who backs off

\* the buffer that the reserve loop of batch k is at is held under a ticket
\* older than the ticket of k's attempt
MeetsOlder(k) ==
    /\ bo_reserved[list[k][cur[k]].bo]
    /\ bo_val_seq[list[k][cur[k]].bo] < val_seq[k]

C30_Step ==
    \A k \in Batches :
        (ReserveStep(k) /\ mpc[k] = "scan") =>
            \* the back-off for contention is taken against an older holder only
            /\ (mpc'[k] = "wait_again") => MeetsOlder(k)
            \* an attempt that is not up against an older holder keeps its
            \* ticket and what it has acquired
            /\ (~MeetsOlder(k) /\ ~AtFullShared(k)) =>
                   /\ val_seq'[k] = val_seq[k]
                   /\ mpc'[k] \in {"scan", "held", "wait_busy"}
                   /\ \A j \in 1..(cur[k] - 1) :
                          /\ entry'[k][j].reserved = entry[k][j].reserved
                          /\ entry[k][j].reserved => bo_reserved'[list[k][j].bo]

ScanIsNewest ==
    \A k \in Batches :
        (mpc[k] = "scan") =>
            \A b \in Bufs :
                (bo_reserved[b] /\ bo_val_seq[b] # val_seq[k])
                    => bo_val_seq[b] < val_seq[k]

\* ---- what a reserve returns

C31_Step ==
    \A k \in Batches :
        \* contention: the attempt goes to sleep, the call does not return
        /\ (ReserveStep(k) /\ mpc[k] = "scan" /\ MeetsOlder(k)) =>
               /\ mpc'[k] = "wait_again"
               /\ mlast' = NoMgrCall
        \* the sleep over, the attempt is made again, unless the sleep was
        \* interrupted
        /\ (ReserveStep(k) /\ Sleeps(k)) =>
               \/ mpc'[k] \in {"retry", "scan"} /\ mlast' = NoMgrCall
               \/ mlast' = [op |-> "reserve", batch |-> k, ret |-> -ERESTARTSYS]

\* C31: dmabufmgr_reserve_buffers returns 0, -ERESTARTSYS (an interrupted
\* sleep) or -EINVAL (the capacity test), never the -EBUSY or -EAGAIN of
\* dma_buf_reserve_locked: on contention the attempt sleeps and is made again.
C31_ContentionNotReturned ==
    /\ [][C31_Step]_vars
    /\ []((mlast.op = "reserve") => mlast.ret \in {0, -ERESTARTSYS, -EINVAL})

\* a reserve has returned 0 under the second ticket of its call: two calls
\* were made, the other batch's under ticket 1, this one under tickets 2 and 3
C31_Witness ==
    /\ mlast.op = "reserve"
    /\ mlast.ret = 0
    /\ mcalls = 2
    /\ val_seq[mlast.batch] = 3
    /\ \E j \in Batches \ {mlast.batch} : val_seq[j] = 1

\* ---- dma_buf_reserve_lock

CommitsUnreserved(k) ==
    /\ \/ mpc[k] = "idle" /\ mpc'[k] = "commit"
       \/ mpc[k] = "commit" /\ mpc'[k] = "idle"
    /\ \E b \in ListBufs(list'[k]) : ~(bo_reserved[b] /\ bo_val_seq[b] = val_seq[k])

\* C33: a commit of a list that the calling batch has not reserved changes no
\* buffer's fence_excl, fence_shared or fence_shared_count, and clears the
\* reserved flag of no buffer that another batch holds.
C33_Step ==
    \A k \in Batches :
        CommitsUnreserved(k) =>
            /\ fence_excl' = fence_excl
            /\ fence_shared' = fence_shared
            /\ \A b \in Bufs :
                   (bo_reserved[b] /\ bo_val_seq[b] # val_seq[k]) => bo_reserved'[b]
C33_UnreservedCommitHarmless == [][C33_Step]_vars

\* ---- the error returns of dmabufmgr_reserve_buffers

\* batch k holds nothing: no entry of its list is flagged or has collected
\* fences, no buffer is reserved under its ticket, and so no batch that sleeps
\* on a buffer is kept asleep by a reservation of k
HoldsNothing(k) ==
    /\ \A i \in DOMAIN entry[k] :
           /\ ~entry[k][i].reserved
           /\ entry[k][i].num_fences = 0
    /\ \A b \in Bufs : ~(bo_reserved[b] /\ bo_val_seq[b] = val_seq[k])
    /\ \A j \in Batches \ {k} :
           Sleeps(j) => ~(/\ bo_reserved[list[j][cur[j]].bo]
                          /\ bo_val_seq[list[j][cur[j]].bo] = val_seq[k])

C34_Step ==
    \A k \in Batches :
        (mlast'.op = "reserve" /\ mlast'.batch = k /\ mlast'.ret # 0) =>
            /\ InProgress(k)
            /\ \A b \in Bufs :
                   (bo_reserved[b] /\ bo_val_seq[b] = val_seq[k]) => ~bo_reserved'[b]
            /\ \A b \in Bufs :
                   (bo_reserved[b] /\ bo_val_seq[b] # val_seq[k]) => bo_reserved'[b]

Snapshots(j) ==
    /\ mpc[j] = "scan"
    /\ cur'[j] = cur[j] + 1 \/ mpc'[j] = "held"

\* batch k is between the two loops of its commit
InCommit(k) == mpc[k] = "commit"

C35_Step ==
    /\ \A j \in Batches :
           Snapshots(j) =>
               \A k \in Batches \ {j} :
                   ~(/\ mpc[k] \in {"held", "commit"}
                     /\ list[j][cur[j]].bo \in ListBufs(list[k]))
    /\ \A b \in Bufs :
           (fence_excl'[b] # fence_excl[b] \/ fence_shared'[b] # fence_shared[b]) =>
               \E k \in Batches :
                   /\ mpc[k] \in {"held", "commit"}
                   /\ mpc'[k] # mpc[k]
                   /\ b \in ListBufs(list[k])
                   /\ bo_reserved[b]
                   /\ bo_val_seq[b] = val_seq[k]

\* C35: no reserve takes the snapshot of a buffer that another batch holds or
\* is committing, so that no snapshot sees the fence slots between the two
\* loops of a commit; the fence slots of a buffer are changed only by the
\* commit of the batch that has it reserved, and the buffers of a commit stay
\* reserved under its ticket between the two loops.
C35_CommitAtomic ==
    /\ [][C35_Step]_vars
    /\ [](\A k \in Batches : InCommit(k) =>
              \A b \in ListBufs(list[k]) :
                  bo_reserved[b] /\ bo_val_seq[b] = val_seq[k])

\* a commit has dropped the old fences of a buffer and not yet stored the new
\* one, while the reserve loop of another batch stands at that buffer
C35_Witness ==
    \E k, j \in Batches :
        /\ InCommit(k)
        /\ mpc[j] = "scan"
        /\ list[j][cur[j]].bo \in ExclBufs(list[k])
        /\ fence_excl[list[j][cur[j]].bo] = NoFence
        /\ fence_shared[list[j][cur[j]].bo] = <<>>
        /\ \E f \in DOMAIN fence_refs : f < 0 /\ fence_refs[f] = 0

\* ---- the references the buffers hold on their fences

\* the reference its creator holds on a fence that a commit has brought in; the
\* fences attached when the model starts are held by their slots alone
CreatorRefs(f) == IF f > 0 THEN 1 ELSE 0

C36_Step ==
    /\ \A f \in DOMAIN fence_refs : f \in DOMAIN fence_refs'
    /\ \A k \in Batches :
           /\ (mpc[k] = "held" /\ mpc'[k] = "commit") =>
                  \A f \in DOMAIN fence_refs :
                      fence_refs[f] - fence_refs'[f]
                          = Cardinality(SlotsOf(ExclBufs(list[k]), f))
           /\ (mpc[k] = "commit" /\ mpc'[k] = "idle") =>
                  \A f \in DOMAIN fence_refs :
                      fence_refs'[f] - fence_refs[f]
                          = IF f = fence_new[k] THEN Len(list[k]) ELSE 0
    /\ (\A k \in Batches : mpc[k] \in {"held", "commit"} => mpc'[k] = mpc[k]) =>
           \A f \in DOMAIN fence_refs : fence_refs'[f] = fence_refs[f]

WaitedFor(ents, e, n) ==
    UNION {{ents[i].fences[j] : j \in {m \in 1..ents[i].num_fences : i < e \/ m < n}}
               : i \in {x \in DOMAIN ents : x <= e}}

\* the fences that the entries ents hold
Collected(ents) == UNION {Range(ents[i].fences) : i \in DOMAIN ents}

C37_Step ==
    \A k \in Batches :
        (mpc[k] = "wait_fences") =>
            \* it goes on to the next fence with the time that is left
            /\ (mpc'[k] = "wait_fences" /\ walk'[k] # walk[k]) =>
                   /\ walk'[k].ret > 0
                   /\ walk'[k].ret <= walk[k].ret
                   /\ WaitedFor(entry[k], walk'[k].entry, walk'[k].fence)
                          = WaitedFor(entry[k], walk[k].entry, walk[k].fence)
                            \cup {entry[k][walk'[k].entry].fences[walk'[k].fence - 1]}
            \* or it returns: what the last wait gave if that is not positive,
            \* else the time left after the last fence of the list
            /\ (mpc'[k] # "wait_fences") =>
                   /\ mlast' = [op |-> "wait_timeout", batch |-> k, ret |-> walk'[k].ret]
                   /\ \/ walk'[k].ret <= 0
                      \/ /\ walk'[k].ret = walk[k].ret
                         /\ WaitedFor(entry[k], walk[k].entry, walk[k].fence)
                                = Collected(entry[k])

\* C37 as stated: the value dmabufmgr_wait_timeout returns never exceeds the
\* timeout passed in.
C37_NeverExceedsTimeout ==
    (mlast.op = "wait_timeout") => mlast.ret <= walk[mlast.batch].timeout

\* C37, as the code has it: dmabufmgr_wait_timeout waits for the collected
\* fences one after the other in list order, each with the time the last wait
\* left; it returns the first result that is not positive, and else the time
\* left after the last fence.  Every fence it has waited for with a positive
\* result is signaled, so a positive return implies that every collected fence
\* of every entry is signaled.  For a timeout >= 0 the value returned is no
\* more than the timeout; for a negative timeout it is -EINVAL, or the timeout
\* itself when no fence was collected.
C37_WaitWalk ==
    /\ [][C37_Step]_vars
    /\ [](\A k \in Batches :
              (mpc[k] = "wait_fences") =>
                  WaitedFor(entry[k], walk[k].entry, walk[k].fence)
                      \subseteq fence_signaled)
    /\ []((mlast.op = "wait_timeout") =>
              LET k == mlast.batch IN
              /\ (mlast.ret > 0) => Collected(entry[k]) \subseteq fence_signaled
              /\ (walk[k].timeout >= 0) => mlast.ret <= walk[k].timeout
              /\ (walk[k].timeout < 0) =>
                     mlast.ret = IF Collected(entry[k]) = {} THEN walk[k].timeout
                                 ELSE -EINVAL)

\* a wait with a timeout of two has returned one after it waited for three
\* fences, the two shared fences of one buffer and the exclusive fence of the
\* other
C37_Witness ==
    /\ mlast.op = "wait_timeout"
    /\ mlast.ret = 1
    /\ walk[mlast.batch].timeout = MaxBudget
    /\ Len(entry[mlast.batch]) = 2
    /\ entry[mlast.batch][1].num_fences = 2
    /\ entry[mlast.batch][2].num_fences = 1
    /\ Collected(entry[mlast.batch]) \subseteq fence_signaled
    /\ Cardinality(Collected(entry[mlast.batch])) = 3

\* ---- what a back-off releases

\* a dmabufmgr_backoff_reservation of batch k returns in this step
BackoffReturns(k) == mlast' = [op |-> "backoff", batch |-> k, ret |-> 0]

C38_Step ==
    \A k \in Batches :
        BackoffReturns(k) =>
            /\ UNCHANGED <<fence_excl, fence_shared, fence_refs, bo_val_seq>>
            /\ \A i \in DOMAIN entry'[k] : ~entry'[k][i].reserved
            /\ \A b \in Bufs :
                   /\ (bo_reserved[b] /\ ~bo_reserved'[b]) =>
                          /\ bo_val_seq[b] = val_seq[k]
                          /\ \E i \in DOMAIN entry[k] :
                                 entry[k][i].reserved /\ list[k][i].bo = b
                   /\ (bo_reserved[b] /\ bo_val_seq[b] # val_seq[k]) => bo_reserved'[b]
                   /\ ~bo_reserved[b] => ~bo_reserved'[b]
            /\ (mpc[k] = "idle") => UNCHANGED <<bo_reserved, entry>>

\* C38: dmabufmgr_backoff_reservation clears the reserved flag of a buffer
\* only through an entry of its list whose reserved flag is set, and so only
\* of buffers reserved under the batch's ticket, never of a buffer that another
\* batch holds; it leaves every entry unflagged and changes no fence slot.
\* Called on a list that is not reserved, after a commit of the list, after a
\* back-off or after a failed reserve, it changes no buffer and no entry.
C38_BackoffReleasesOwn == [][C38_Step]_vars

\* a back-off has just returned for a batch whose list was committed before,
\* while the other batch holds a buffer of that list which carries the fence
\* of that commit
C38_Witness ==
    /\ mlast.op = "backoff"
    /\ LET k == mlast.batch IN
           \E j \in Batches \ {k} :
               \E b \in ListBufs(list[k]) \cap ListBufs(list[j]) :
                   /\ mpc[j] = "held"
                   /\ bo_reserved[b]
                   /\ bo_val_seq[b] = val_seq[j]
                   /\ fence_new[k] # NoFence
                   /\ fence_new[k] \in FenceSet(b)

\* ---- NEED_SW_SIGNAL

\* C39: a fence that is not signaled and has a waiter or a callback in its
\* queue has NEED_SW_SIGNAL set, and NEED_SW_SIGNAL is never cleared once it
\* is set.
C39_QueuedNeedsSw ==
    /\ []((DMA_FENCE_FLAG_SIGNALED \notin flags /\ event_queue # <<>>)
              => DMA_FENCE_FLAG_NEED_SW_SIGNAL \in flags)
    /\ [][(DMA_FENCE_FLAG_NEED_SW_SIGNAL \in flags)
              => (DMA_FENCE_FLAG_NEED_SW_SIGNAL \in flags')]_vars

\* a waiter and a callback are queued on a fence that is not signaled and
\* whose hook has run once
C39_Witness ==
    /\ DMA_FENCE_FLAG_SIGNALED \notin flags
    /\ QueuedCbs(event_queue) # {}
    /\ QueuedWaiters(event_queue) # {}
    /\ hook_calls = 1
    /\ DMA_FENCE_FLAG_NEED_SW_SIGNAL \in flags

\* ---- the software fence of dma_fence_create

\* C40: on a fence created with NEED_SW_SIGNAL set, as dma_fence_create does,
\* the enable_signaling hook is never called and no call ever stands before
\* it, whatever the calls made on the fence; and SIGNALED is set only by a
\* dma_fence_signal that returns 0 or by a step of the hook, so that such a
\* fence becomes signaled through dma_fence_signal alone.
C40_SwFenceNoHook ==
    /\ (DMA_FENCE_FLAG_NEED_SW_SIGNAL \in flags)
           => [](hook_calls = 0 /\ \A t \in Threads : ~InHook(t))
    /\ [][(sig_sets' # sig_sets) =>
              \/ last'.op = "signal" /\ last'.ret = 0
              \/ hook_calls' = hook_calls + 1]_vars

\* a fence that has NEED_SW_SIGNAL without any call of the hook, so one that
\* was created with it, has just been signaled by dma_fence_signal with two
\* callbacks queued: both have run
C40_Witness ==
    /\ hook_calls = 0
    /\ \A t \in Threads : ~InHook(t)
    /\ flags = {DMA_FENCE_FLAG_NEED_SW_SIGNAL, DMA_FENCE_FLAG_SIGNALED}
    /\ last.op = "signal"
    /\ last.ret = 0
    /\ Len(fire_seq) = 2
====
